---- MODULE Spec2Model ----
(***************************************************************************)
(* A model of ArraySchema (core/src/array/array_schema.cc): the builder    *)
(* (init and its setters), the derived-field computations, the binary      *)
(* codec (serialize / deserialize) and the positional kernel.              *)
(*                                                                         *)
(* Conventions of the model                                                *)
(*  - a C string is a sequence of one-character strings, <<"x","_","1">>;  *)
(*  - a pointer is a sequence of length 0 (NULL) or 1 (Ptr(v));            *)
(*  - a raw blob (domain_, tile_extents_, the serialized buffer) is a      *)
(*    sequence of bytes 0..255; typed reads decode it with the coordinate  *)
(*    type, as the casts of the source do;                                 *)
(*  - a size_t or int64_t value is kept as the signed integer that has     *)
(*    the same 64-bit pattern (so SIZE_MAX is -1): see IsSize;             *)
(*  - a member the constructor leaves uninitialised is absent from the     *)
(*    schema record until a setter assigns it.                             *)
(***************************************************************************)
EXTENDS Integers, Sequences, FiniteSets, TLC

VARIABLES
  pc,                \* position of the builder: the next setter of init, "done" or "err"
  array_schema_c,    \* the fields of the ArraySchemaC bundle read by init so far
  schema,            \* the ArraySchema object that init fills
  bin,               \* what serialize on schema returned (NULL before the call)
  copy,              \* a second ArraySchema object, filled by deserialize
  copy_bin,          \* what serialize on copy returned (NULL before the call)
  cell_query,        \* last get_cell_pos call: its coordinates and result (NULL before)
  tile_walk,         \* a caller's loop over get_next_tile_coords (NULL before)
  last_call,         \* last call of an accessor or overlap operation (NULL before)
  readers            \* the calls in progress on schema, one per reader thread

vars ==
  <<pc, array_schema_c, schema, bin, copy, copy_bin, cell_query, tile_walk, last_call, readers>>

----------------------------------------------------------------------------
(* Bounds of the model *)

\* Largest coordinate value used in input domains.
MaxCoord == 3
\* Largest tile extent used in input tile extents.
MaxExtent == 2

----------------------------------------------------------------------------
(* Pointers *)

NULL == <<>>
Ptr(v) == <<v>>
Deref(p) == p[1]

(* Strings *)

Str_v == <<"v">>
Str_w == <<"w">>
Str_x == <<"x">>
Str_y == <<"y">>
Str_z == <<"z">>
Str_x_1 == <<"x", "_", "1">>
Str_A == <<"A">>
Str_slash_b == <<"/", "b">>
Str_char == <<"c", "h", "a", "r">>
Str_int32 == <<"i", "n", "t", "3", "2">>
Str_int64 == <<"i", "n", "t", "6", "4">>
Str_float32 == <<"f", "l", "o", "a", "t", "3", "2">>
Str_float64 == <<"f", "l", "o", "a", "t", "6", "4">>
Str_var == <<"v", "a", "r">>
Str_colon == <<":">>
Str_row_major == <<"r", "o", "w", "-", "m", "a", "j", "o", "r">>
Str_column_major == <<"c", "o", "l", "u", "m", "n", "-", "m", "a", "j", "o", "r">>
Str_hilbert == <<"h", "i", "l", "b", "e", "r", "t">>
Str_bogus == <<"b", "o", "g", "u", "s">>
Str_NONE == <<"N", "O", "N", "E">>
Str_GZIP == <<"G", "Z", "I", "P">>
Str_SNAPPY == <<"S", "N", "A", "P", "P", "Y">>

\* The name of the coordinates pseudo-attribute.
TILEDB_COORDS_NAME == <<"_", "_", "c", "o", "o", "r", "d", "s">>

\* ASCII codes of the characters that occur in names.
CharCode ==
  [c \in {"A", "b", "/", "v", "w", "x", "y", "z", "_", "1", "2", "3", "4",
          "c", "o", "r", "d", "s"} |->
     CASE c = "A" -> 65 [] c = "b" -> 98 [] c = "/" -> 47
       [] c = "v" -> 118 [] c = "w" -> 119 [] c = "x" -> 120 [] c = "y" -> 121
       [] c = "z" -> 122
       [] c = "_" -> 95 [] c = "1" -> 49 [] c = "2" -> 50 [] c = "3" -> 51
       [] c = "4" -> 52 [] c = "c" -> 99 [] c = "o" -> 111 [] c = "r" -> 114
       [] c = "d" -> 100 [] c = "s" -> 115]

CodeChar(b) == CHOOSE c \in DOMAIN CharCode : CharCode[c] = b

\* The bytes of a string (what c_str() / &s[0] points to), and back.
StrBytes(s) == [i \in 1..Len(s) |-> CharCode[s[i]]]
BytesStr(b) == [i \in 1..Len(b) |-> CodeChar(b[i])]

Range(s) == {s[i] : i \in 1..Len(s)}

----------------------------------------------------------------------------
(* Return codes, defaults and enumerators of array_schema.h / constants.h *)

TILEDB_AS_OK == 0
TILEDB_AS_ERR == -1
TILEDB_AS_CAPACITY == 10000
TILEDB_AS_CONSOLIDATION_STEP == 1
\* std::numeric_limits<size_t>::max(): -1 as a 64-bit pattern, and -1 when
\* stored in the int vector val_num_.
TILEDB_AS_VAR_SIZE == -1
\* sizeof(size_t)
TILEDB_CELL_VAR_OFFSET_SIZE == 8

TILEDB_AS_TO_ROW_MAJOR == 0
TILEDB_AS_TO_COLUMN_MAJOR == 1
TILEDB_AS_TO_HILBERT == 2
TILEDB_AS_CO_ROW_MAJOR == 0
TILEDB_AS_CO_COLUMN_MAJOR == 1
TILEDB_AS_CO_HILBERT == 2
TILEDB_AS_CELL_ORDER == TILEDB_AS_CO_ROW_MAJOR
TILEDB_AS_TILE_ORDER == TILEDB_AS_TO_ROW_MAJOR

TILEDB_AS_CMP_NONE == 0
TILEDB_AS_CMP_GZIP == 1

TILEDB_INT32 == 0
TILEDB_INT64 == 1
TILEDB_FLOAT32 == 2
TILEDB_FLOAT64 == 3
TILEDB_CHAR == 4

\* typeid objects
T_char == "char"
T_int == "int"
T_int64_t == "int64_t"
T_float == "float"
T_double == "double"

sizeof(t) ==
  CASE t = T_char -> 1
    [] t = T_int -> 4
    [] t = T_int64_t -> 8
    [] t = T_float -> 4
    [] t = T_double -> 8
    [] t = "bool" -> 1

\* A size_t pattern that denotes the natural number n (no wrap-around).
IsSize(v, n) == v >= 0 /\ v = n

----------------------------------------------------------------------------
(* Byte encodings: what memcpy of a typed value writes (little-endian) *)

RECURSIVE Pow2(_)
Pow2(n) == IF n = 0 THEN 1 ELSE 2 * Pow2(n - 1)

RECURSIVE Log2Floor(_)
Log2Floor(n) == IF n <= 1 THEN 0 ELSE 1 + Log2Floor(n \div 2)

Abs(v) == IF v < 0 THEN -v ELSE v

\* Two's complement, n bytes, least significant byte first.
RECURSIVE EncInt(_, _)
EncInt(v, n) == IF n = 0 THEN <<>> ELSE <<v % 256>> \o EncInt(v \div 256, n - 1)

RECURSIVE DecInt(_)
DecInt(b) ==
  IF Len(b) = 1 THEN (IF b[1] >= 128 THEN b[1] - 256 ELSE b[1])
  ELSE b[1] + 256 * DecInt(Tail(b))

\* IEEE-754 binary32 of a whole number v, |v| < 2^23.
EncFloat(v) ==
  IF v = 0 THEN <<0, 0, 0, 0>>
  ELSE LET s == IF v < 0 THEN 1 ELSE 0
           e == Log2Floor(Abs(v))
           E == e + 127
           m == (Abs(v) - Pow2(e)) * Pow2(23 - e)
       IN <<m % 256, (m \div 256) % 256, (E % 2) * 128 + (m \div 65536),
            s * 128 + (E \div 2)>>

DecFloat(b) ==
  LET s == b[4] \div 128
      E == (b[4] % 128) * 2 + (b[3] \div 128)
      m == (b[3] % 128) * 65536 + b[2] * 256 + b[1]
      a == IF E = 0 THEN 0 ELSE (Pow2(23) + m) \div Pow2(23 - (E - 127))
  IN IF s = 1 THEN -a ELSE a

\* IEEE-754 binary64 of a whole number v, |v| < 2^12.
EncDouble(v) ==
  IF v = 0 THEN <<0, 0, 0, 0, 0, 0, 0, 0>>
  ELSE LET s == IF v < 0 THEN 1 ELSE 0
           e == Log2Floor(Abs(v))
           E == e + 1023
           top12 == (Abs(v) - Pow2(e)) * Pow2(12 - e)
       IN <<0, 0, 0, 0, 0, top12 % 256, (E % 16) * 16 + (top12 \div 256),
            s * 128 + (E \div 16)>>

DecDouble(b) ==
  LET s == b[8] \div 128
      E == (b[8] % 128) * 16 + (b[7] \div 16)
      top12 == (b[7] % 16) * 256 + b[6]
      a == IF E = 0 THEN 0 ELSE (4096 + top12) \div Pow2(12 - (E - 1023))
  IN IF s = 1 THEN -a ELSE a

Enc(t, v) ==
  CASE t = T_int -> EncInt(v, 4)
    [] t = T_int64_t -> EncInt(v, 8)
    [] t = T_float -> EncFloat(v)
    [] t = T_double -> EncDouble(v)

Dec(t, b) ==
  CASE t = T_int -> DecInt(b)
    [] t = T_int64_t -> DecInt(b)
    [] t = T_float -> DecFloat(b)
    [] t = T_double -> DecDouble(b)

\* A typed array as the bytes it occupies.
RECURSIVE EncArray(_, _)
EncArray(t, a) == IF a = <<>> THEN <<>> ELSE Enc(t, Head(a)) \o EncArray(t, Tail(a))

\* Element i (zero-based) of the blob b read through a pointer to t.
Elem(t, b, i) == Dec(t, SubSeq(b, i * sizeof(t) + 1, (i + 1) * sizeof(t)))

\* memcpy(dst, src, n): the first n bytes behind src.
memcpy(src, n) == SubSeq(src, 1, n)

----------------------------------------------------------------------------
(* utils.h helpers used by the setters *)

has_duplicates(v) == \E i, j \in 1..Len(v) : i < j /\ v[i] = v[j]

intersect(v1, v2) == Range(v1) \cap Range(v2) # {}

\* The canonical (absolute) form of a directory name; the working directory
\* of the model is the root.
real_dir(dir) == IF dir # <<>> /\ dir[1] = "/" THEN dir ELSE <<"/">> \o dir

Digits == {"0", "1", "2", "3", "4", "5", "6", "7", "8", "9"}

DigitVal(c) ==
  CASE c = "0" -> 0 [] c = "1" -> 1 [] c = "2" -> 2 [] c = "3" -> 3
    [] c = "4" -> 4 [] c = "5" -> 5 [] c = "6" -> 6 [] c = "7" -> 7
    [] c = "8" -> 8 [] c = "9" -> 9

\* sscanf(token, "%d", &num) on a string of digits.
RECURSIVE sscanf_d(_)
sscanf_d(token) ==
  IF token = <<>> THEN 0
  ELSE 10 * sscanf_d(SubSeq(token, 1, Len(token) - 1)) + DigitVal(token[Len(token)])

is_positive_integer(token) ==
  /\ token # <<>>
  /\ \A i \in 1..Len(token) : token[i] \in Digits
  /\ sscanf_d(token) > 0

\* The successive results of strtok(s, ":"): the maximal runs without ':'.
RECURSIVE strtok(_, _)
strtok(s, cur) ==
  IF s = <<>> THEN (IF cur = <<>> THEN <<>> ELSE <<cur>>)
  ELSE IF Head(s) = ":"
       THEN (IF cur = <<>> THEN <<>> ELSE <<cur>>) \o strtok(Tail(s), <<>>)
       ELSE strtok(Tail(s), Append(cur, Head(s)))

----------------------------------------------------------------------------
(* The ArraySchema object *)

\* Member f of object s after the assignment s.f = v.
Assign(s, f, v) == (f :> v) @@ s

\* Element i (zero-based) of a std::vector.
At(v, i) == v[i + 1]

\* The object the constructor leaves: six members assigned, the vectors and
\* the name empty, every other member uninitialised (absent).
ArraySchema ==
  [cell_num_per_tile_ |-> -1,
   coords_for_hilbert_ |-> NULL,
   domain_ |-> NULL,
   hilbert_curve_ |-> NULL,
   tile_extents_ |-> NULL,
   tile_domain_ |-> NULL,
   array_name_ |-> <<>>,
   attributes_ |-> <<>>,
   dimensions_ |-> <<>>,
   types_ |-> <<>>,
   type_sizes_ |-> <<>>,
   cell_sizes_ |-> <<>>,
   tile_sizes_ |-> <<>>,
   val_num_ |-> <<>>,
   compression_ |-> <<>>]

\* What a setter hands back: its return code and the object it leaves.
Result(code, s) == [ret |-> code, s |-> s]

coords_size(s) == At(s.cell_sizes_, s.attribute_num_)

cell_size(s, attribute_id) == At(s.cell_sizes_, attribute_id)

var_size(s, attribute_id) == At(s.cell_sizes_, attribute_id) = TILEDB_AS_VAR_SIZE

----------------------------------------------------------------------------
(* Setters *)

set_array_name(s, array_name) == Assign(s, "array_name_", real_dir(array_name))

set_attributes(s, attributes, attribute_num) ==
  IF attributes = NULL THEN Result(TILEDB_AS_ERR, s)
  ELSE IF attribute_num <= 0 THEN Result(TILEDB_AS_ERR, s)
  ELSE LET s1 == Assign(Assign(s, "attributes_",
                          s.attributes_ \o SubSeq(Deref(attributes), 1, attribute_num)),
                        "attribute_num_", attribute_num)
           s2 == Assign(s1, "attributes_", Append(s1.attributes_, TILEDB_COORDS_NAME))
       IN IF has_duplicates(s2.attributes_) THEN Result(TILEDB_AS_ERR, s2)
          ELSE IF intersect(s2.attributes_, s2.dimensions_) THEN Result(TILEDB_AS_ERR, s2)
          ELSE Result(TILEDB_AS_OK, s2)

\* set_capacity storing the capacity as given.
set_capacity_as_given(s, capacity) ==
  Assign(s, "capacity_", capacity)

set_capacity(s, capacity) ==
  IF capacity > 0 THEN Assign(s, "capacity_", capacity)
  ELSE Assign(s, "capacity_", TILEDB_AS_CAPACITY)

set_dimensions(s, dimensions, dim_num) ==
  IF dimensions = NULL THEN Result(TILEDB_AS_ERR, s)
  ELSE IF dim_num <= 0 THEN Result(TILEDB_AS_ERR, s)
  ELSE LET s1 == Assign(Assign(s, "dimensions_",
                          s.dimensions_ \o SubSeq(Deref(dimensions), 1, dim_num)),
                        "dim_num_", dim_num)
       IN IF has_duplicates(s1.dimensions_) THEN Result(TILEDB_AS_ERR, s1)
          ELSE IF intersect(s1.attributes_, s1.dimensions_) THEN Result(TILEDB_AS_ERR, s1)
          ELSE Result(TILEDB_AS_OK, s1)

\* The loop of set_compression from index i on.
RECURSIVE set_compression_loop(_, _, _)
set_compression_loop(s, compression, i) ==
  IF i >= s.attribute_num_ + 1 THEN Result(TILEDB_AS_OK, s)
  ELSE IF At(compression, i) = Str_NONE
       THEN set_compression_loop(
              Assign(s, "compression_", Append(s.compression_, TILEDB_AS_CMP_NONE)),
              compression, i + 1)
  ELSE IF At(compression, i) = Str_GZIP
       THEN set_compression_loop(
              Assign(s, "compression_", Append(s.compression_, TILEDB_AS_CMP_GZIP)),
              compression, i + 1)
  ELSE Result(TILEDB_AS_ERR, s)

set_compression(s, compression) ==
  IF compression = NULL
  THEN Result(TILEDB_AS_OK,
              Assign(s, "compression_",
                     s.compression_ \o [i \in 1..(s.attribute_num_ + 1) |-> TILEDB_AS_CMP_NONE]))
  ELSE set_compression_loop(s, Deref(compression), 0)

set_consolidation_step(s, consolidation_step) ==
  IF consolidation_step > 0 THEN Assign(s, "consolidation_step_", consolidation_step)
  ELSE Assign(s, "consolidation_step_", TILEDB_AS_CONSOLIDATION_STEP)

\* dense_ = dense: the int converts to bool.
set_dense(s, dense) == Assign(s, "dense_", dense # 0)

----------------------------------------------------------------------------
(* Derived sizes *)

typeid_of(type) ==
  CASE type = Str_char -> Ptr(T_char)
    [] type = Str_int32 -> Ptr(T_int)
    [] type = Str_int64 -> Ptr(T_int64_t)
    [] type = Str_float32 -> Ptr(T_float)
    [] type = Str_float64 -> Ptr(T_double)
    [] OTHER -> NULL

compute_type_size(s, i) == sizeof(At(s.types_, i))

\* compute_cell_size that takes every fixed-sized cell to hold one value.
compute_cell_size_one_value(s, i) ==
  IF i < s.attribute_num_ /\ At(s.val_num_, i) = TILEDB_AS_VAR_SIZE
  THEN TILEDB_AS_VAR_SIZE
  ELSE IF i < s.attribute_num_
       THEN sizeof(At(s.types_, i))
       ELSE s.dim_num_ * sizeof(At(s.types_, i))

compute_cell_size(s, i) ==
  IF i < s.attribute_num_ /\ At(s.val_num_, i) = TILEDB_AS_VAR_SIZE
  THEN TILEDB_AS_VAR_SIZE
  ELSE IF i < s.attribute_num_
       THEN At(s.val_num_, i) * sizeof(At(s.types_, i))
       ELSE s.dim_num_ * sizeof(At(s.types_, i))

----------------------------------------------------------------------------
(* set_types *)

\* One iteration of the attribute loop of set_types: the val_num_ part.
set_types_val_num(s, tokens) ==
  IF Len(tokens) < 2
  THEN Result(TILEDB_AS_OK, Assign(s, "val_num_", Append(s.val_num_, 1)))
  ELSE LET token == tokens[2]
           r == IF token = Str_var
                THEN Result(TILEDB_AS_OK,
                       Assign(Assign(s, "val_num_", Append(s.val_num_, TILEDB_AS_VAR_SIZE)),
                              "var_attribute_num_", s.var_attribute_num_ + 1))
                ELSE IF ~is_positive_integer(token)
                     THEN Result(TILEDB_AS_ERR, s)
                     ELSE Result(TILEDB_AS_OK,
                            Assign(s, "val_num_", Append(s.val_num_, sscanf_d(token))))
       IN IF r.ret = TILEDB_AS_OK /\ Len(tokens) >= 3
          THEN Result(TILEDB_AS_ERR, r.s)
          ELSE r

RECURSIVE set_types_loop(_, _, _)
set_types_loop(s, types, i) ==
  IF i >= s.attribute_num_ THEN Result(TILEDB_AS_OK, s)
  ELSE LET tokens == strtok(At(types, i), <<>>)
           r == set_types_val_num(s, tokens)
           t == typeid_of(tokens[1])
       IN IF r.ret # TILEDB_AS_OK THEN r
          ELSE IF t = NULL THEN Result(TILEDB_AS_ERR, r.s)
          ELSE set_types_loop(
                 Assign(r.s, "types_", Append(r.s.types_, Deref(t))), types, i + 1)

\* set_types_coords that names the key-value dimensions after the last
\* dimension given.
set_types_coords_last_dimension(s, type) ==
  IF type = Str_char \o Str_colon \o Str_var
  THEN LET dimension == s.dimensions_[Len(s.dimensions_)]
           s1 == Assign(s, "types_", Append(s.types_, T_int))
           s2 == Assign(Assign(s1, "dim_num_", 4), "key_value_", TRUE)
       IN Result(TILEDB_AS_OK,
            Assign(s2, "dimensions_",
                   <<dimension \o <<"_", "1">>, dimension \o <<"_", "2">>,
                     dimension \o <<"_", "3">>, dimension \o <<"_", "4">>>>))
  ELSE LET s1 == Assign(s, "key_value_", FALSE)
           t == typeid_of(type)
       IN IF s1.dense_ /\ (type = Str_float32 \/ type = Str_float64)
          THEN Result(TILEDB_AS_ERR, s1)
          ELSE IF t = NULL \/ type = Str_char
               THEN Result(TILEDB_AS_ERR, s1)
               ELSE Result(TILEDB_AS_OK, Assign(s1, "types_", Append(s1.types_, Deref(t))))

\* set_types_coords without the check on dense arrays.
set_types_coords_dense_unchecked(s, type) ==
  IF type = Str_char \o Str_colon \o Str_var
  THEN LET dimension == Head(s.dimensions_)
           s1 == Assign(s, "types_", Append(s.types_, T_int))
           s2 == Assign(Assign(s1, "dim_num_", 4), "key_value_", TRUE)
       IN Result(TILEDB_AS_OK,
            Assign(s2, "dimensions_",
                   <<dimension \o <<"_", "1">>, dimension \o <<"_", "2">>,
                     dimension \o <<"_", "3">>, dimension \o <<"_", "4">>>>))
  ELSE LET s1 == Assign(s, "key_value_", FALSE)
           t == typeid_of(type)
       IN IF t = NULL \/ type = Str_char
          THEN Result(TILEDB_AS_ERR, s1)
          ELSE Result(TILEDB_AS_OK, Assign(s1, "types_", Append(s1.types_, Deref(t))))

\* The coordinate part of set_types.
set_types_coords(s, type) ==
  IF type = Str_char \o Str_colon \o Str_var
  THEN LET dimension == Head(s.dimensions_)
           s1 == Assign(s, "types_", Append(s.types_, T_int))
           s2 == Assign(Assign(s1, "dim_num_", 4), "key_value_", TRUE)
       IN Result(TILEDB_AS_OK,
            Assign(s2, "dimensions_",
                   <<dimension \o <<"_", "1">>, dimension \o <<"_", "2">>,
                     dimension \o <<"_", "3">>, dimension \o <<"_", "4">>>>))
  ELSE LET s1 == Assign(s, "key_value_", FALSE)
           t == typeid_of(type)
       IN IF s1.dense_ /\ (type = Str_float32 \/ type = Str_float64)
          THEN Result(TILEDB_AS_ERR, s1)
          ELSE IF t = NULL \/ type = Str_char
               THEN Result(TILEDB_AS_ERR, s1)
               ELSE Result(TILEDB_AS_OK, Assign(s1, "types_", Append(s1.types_, Deref(t))))

\* The tail of set_types: type_sizes_ and cell_sizes_.
set_types_sizes(s) ==
  LET s1 == Assign(s, "type_sizes_",
                   [i \in 1..(s.attribute_num_ + 1) |-> compute_type_size(s, i - 1)])
  IN Assign(s1, "cell_sizes_",
            [i \in 1..(s1.attribute_num_ + 1) |-> compute_cell_size(s1, i - 1)])

set_types(s, types) ==
  IF types = NULL THEN Result(TILEDB_AS_ERR, s)
  ELSE LET r1 == set_types_loop(Assign(s, "var_attribute_num_", 0), Deref(types), 0)
           r2 == set_types_coords(r1.s, At(Deref(types), r1.s.attribute_num_))
       IN IF r1.ret # TILEDB_AS_OK THEN r1
          ELSE IF r2.ret # TILEDB_AS_OK THEN r2
          ELSE Result(TILEDB_AS_OK, set_types_sizes(r2.s))

----------------------------------------------------------------------------
(* Tile extents, orders, domain *)

\* set_tile_extents without the check that a dense array has extents.
set_tile_extents_unchecked(s, tile_extents) ==
  IF tile_extents = NULL THEN Result(TILEDB_AS_OK, Assign(s, "tile_extents_", NULL))
  ELSE Result(TILEDB_AS_OK,
         Assign(s, "tile_extents_", Ptr(memcpy(Deref(tile_extents), coords_size(s)))))

set_tile_extents(s, tile_extents) ==
  IF tile_extents = NULL /\ s.dense_ THEN Result(TILEDB_AS_ERR, s)
  ELSE IF tile_extents = NULL THEN Result(TILEDB_AS_OK, Assign(s, "tile_extents_", NULL))
  ELSE Result(TILEDB_AS_OK,
         Assign(s, "tile_extents_", Ptr(memcpy(Deref(tile_extents), coords_size(s)))))

set_cell_order(s, cell_order) ==
  IF cell_order = NULL
  THEN Result(TILEDB_AS_OK, Assign(s, "cell_order_", TILEDB_AS_CELL_ORDER))
  ELSE IF Deref(cell_order) = Str_row_major
  THEN Result(TILEDB_AS_OK, Assign(s, "cell_order_", TILEDB_AS_CO_ROW_MAJOR))
  ELSE IF Deref(cell_order) = Str_column_major
  THEN Result(TILEDB_AS_OK, Assign(s, "cell_order_", TILEDB_AS_CO_COLUMN_MAJOR))
  ELSE IF Deref(cell_order) = Str_hilbert
  THEN (IF s.tile_extents_ # NULL THEN Result(TILEDB_AS_ERR, s)
        ELSE Result(TILEDB_AS_OK, Assign(s, "cell_order_", TILEDB_AS_CO_HILBERT)))
  ELSE Result(TILEDB_AS_ERR, s)

\* set_tile_order that accepts "hilbert" whatever the tile extents.
set_tile_order_unchecked(s, tile_order) ==
  IF tile_order = NULL
  THEN Result(TILEDB_AS_OK, Assign(s, "tile_order_", TILEDB_AS_TILE_ORDER))
  ELSE IF Deref(tile_order) = Str_row_major
  THEN Result(TILEDB_AS_OK, Assign(s, "tile_order_", TILEDB_AS_TO_ROW_MAJOR))
  ELSE IF Deref(tile_order) = Str_column_major
  THEN Result(TILEDB_AS_OK, Assign(s, "tile_order_", TILEDB_AS_TO_COLUMN_MAJOR))
  ELSE IF Deref(tile_order) = Str_hilbert
  THEN Result(TILEDB_AS_OK, Assign(s, "tile_order_", TILEDB_AS_TO_HILBERT))
  ELSE Result(TILEDB_AS_ERR, s)

set_tile_order(s, tile_order) ==
  IF tile_order = NULL
  THEN Result(TILEDB_AS_OK, Assign(s, "tile_order_", TILEDB_AS_TILE_ORDER))
  ELSE IF Deref(tile_order) = Str_row_major
  THEN Result(TILEDB_AS_OK, Assign(s, "tile_order_", TILEDB_AS_TO_ROW_MAJOR))
  ELSE IF Deref(tile_order) = Str_column_major
  THEN Result(TILEDB_AS_OK, Assign(s, "tile_order_", TILEDB_AS_TO_COLUMN_MAJOR))
  ELSE IF Deref(tile_order) = Str_hilbert
  THEN (IF s.tile_extents_ # NULL THEN Result(TILEDB_AS_ERR, s)
        ELSE Result(TILEDB_AS_OK, Assign(s, "tile_order_", TILEDB_AS_TO_HILBERT)))
  ELSE Result(TILEDB_AS_ERR, s)

\* The typed views of the two blobs: element k (zero-based) read through a
\* pointer to the coordinate type.
coords_type(s) == At(s.types_, s.attribute_num_)
domain_at(s, k) == Elem(coords_type(s), Deref(s.domain_), k)
tile_extents_at(s, k) == Elem(coords_type(s), Deref(s.tile_extents_), k)

\* The sanity check of set_domain stopping after the first dimension.
domain_bounds_ok_first_dimension(s) ==
  ~(domain_at(s, 0) > domain_at(s, 1))

\* The sanity check of set_domain, in the coordinate type.
domain_bounds_ok(s) ==
  \A i \in 0..(s.dim_num_ - 1) : ~(domain_at(s, 2 * i) > domain_at(s, 2 * i + 1))

set_domain(s, domain) ==
  IF domain = NULL THEN Result(TILEDB_AS_ERR, s)
  ELSE LET s1 == Assign(s, "domain_", Ptr(memcpy(Deref(domain), 2 * coords_size(s))))
       IN IF coords_type(s1) \in {T_int, T_int64_t, T_float, T_double}
          THEN (IF domain_bounds_ok(s1) THEN Result(TILEDB_AS_OK, s1)
                ELSE Result(TILEDB_AS_ERR, s1))
          ELSE Result(TILEDB_AS_ERR, s1)

----------------------------------------------------------------------------
(* Derived fields *)

RECURSIVE Product(_)
Product(v) == IF v = <<>> THEN 1 ELSE Head(v) * Product(Tail(v))

\* The assert(0) of compute_cell_num_per_tile is not hit.
compute_cell_num_per_tile_assert(s) ==
  s.dense_ => coords_type(s) \in {T_int, T_int64_t}

compute_cell_num_per_tile(s) ==
  IF s.dense_
  THEN (IF coords_type(s) \in {T_int, T_int64_t}
        THEN (IF s.tile_extents_ = NULL THEN s
              ELSE Assign(s, "cell_num_per_tile_",
                     Product([i \in 1..s.dim_num_ |-> tile_extents_at(s, i - 1)])))
        ELSE s)
  ELSE (IF s.tile_extents_ # NULL THEN s
        ELSE Assign(s, "cell_num_per_tile_", s.capacity_))

\* compute_tile_sizes without the branch for variable-sized attributes.
compute_tile_sizes_fixed_only(s) ==
  Assign(s, "tile_sizes_",
    [i \in 1..(s.attribute_num_ + 1) |-> s.cell_num_per_tile_ * cell_size(s, i - 1)])

compute_tile_sizes(s) ==
  Assign(s, "tile_sizes_",
    [i \in 1..(s.attribute_num_ + 1) |->
       IF var_size(s, i - 1)
       THEN s.cell_num_per_tile_ * TILEDB_CELL_VAR_OFFSET_SIZE
       ELSE s.cell_num_per_tile_ * cell_size(s, i - 1)])

\* ceil(double(n) / d) for d # 0
CeilDiv(n, d) == IF d > 0 THEN (n + d - 1) \div d ELSE (-n - d - 1) \div (-d)

\* The tile domain with the tile count rounded down.
tile_domain_array_floor(s) ==
  [k \in 1..(2 * s.dim_num_) |->
     IF k % 2 = 1 THEN 0
     ELSE LET i == (k \div 2) - 1
          IN ((domain_at(s, 2 * i + 1) - domain_at(s, 2 * i) + 1)
              \div tile_extents_at(s, i)) - 1]

\* The tile domain as the typed array [0, tile_num-1] per dimension.
tile_domain_array(s) ==
  [k \in 1..(2 * s.dim_num_) |->
     IF k % 2 = 1 THEN 0
     ELSE LET i == (k \div 2) - 1
          IN CeilDiv(domain_at(s, 2 * i + 1) - domain_at(s, 2 * i) + 1,
                     tile_extents_at(s, i)) - 1]

compute_tile_domain(s) ==
  IF s.tile_extents_ = NULL THEN s
  ELSE Assign(s, "tile_domain_", Ptr(EncArray(coords_type(s), tile_domain_array(s))))

\* ceil(log2(n)) for n >= 1
RECURSIVE CeilLog2(_)
CeilLog2(n) == IF n <= 1 THEN 0 ELSE 1 + CeilLog2((n + 1) \div 2)

Max(S) == CHOOSE m \in S : \A x \in S : x <= m

\* compute_hilbert_bits rounding the logarithm down.
compute_hilbert_bits_floor(s) ==
  LET max_domain_range ==
        Max({0} \cup {domain_at(s, 2 * i + 1) - domain_at(s, 2 * i) + 1 :
                        i \in 0..(s.dim_num_ - 1)})
  IN Assign(s, "hilbert_bits_", Log2Floor(max_domain_range))

compute_hilbert_bits(s) ==
  LET max_domain_range ==
        Max({0} \cup {domain_at(s, 2 * i + 1) - domain_at(s, 2 * i) + 1 :
                        i \in 0..(s.dim_num_ - 1)})
  IN Assign(s, "hilbert_bits_", CeilLog2(max_domain_range))

\* The contents of a freshly allocated int array are indeterminate.
new_int_array(n) == [i \in 1..n |-> "indeterminate"]

init_hilbert_curve(s) ==
  IF s.cell_order_ # TILEDB_AS_CO_HILBERT THEN s
  ELSE LET s1 == IF s.coords_for_hilbert_ = NULL
                 THEN Assign(s, "coords_for_hilbert_", Ptr(new_int_array(s.dim_num_)))
                 ELSE s
           s2 == compute_hilbert_bits(s1)
       IN Assign(s2, "hilbert_curve_",
                 Ptr([bits |-> s2.hilbert_bits_, dim_num |-> s2.dim_num_]))

\* The four calls that close init and deserialize.
compute_derived(s) ==
  init_hilbert_curve(compute_tile_domain(compute_tile_sizes(compute_cell_num_per_tile(s))))

----------------------------------------------------------------------------
(* The codec *)

RECURSIVE Sum(_)
Sum(v) == IF v = <<>> THEN 0 ELSE Head(v) + Sum(Tail(v))

\* compute_bin_size that leaves out the bytes of the tile extents.
compute_bin_size_without_tile_extents(s) ==
  LET names(v, n) == [i \in 1..n |-> sizeof(T_int) + Len(v[i])]
  IN   sizeof(T_int) + Len(s.array_name_)
     + sizeof("bool")
     + sizeof("bool")
     + 2 * sizeof(T_char)
     + sizeof(T_int64_t)
     + sizeof(T_int)
     + sizeof(T_int) + Sum(names(s.attributes_, s.attribute_num_))
     + sizeof(T_int) + Sum(names(s.dimensions_, s.dim_num_))
     + sizeof(T_int) + 2 * coords_size(s)
     + sizeof(T_int)
     + (s.attribute_num_ + 1) * sizeof(T_char)
     + s.attribute_num_ * sizeof(T_int)
     + (s.attribute_num_ + 1) * sizeof(T_char)

compute_bin_size(s) ==
  LET names(v, n) == [i \in 1..n |-> sizeof(T_int) + Len(v[i])]
  IN   sizeof(T_int) + Len(s.array_name_)
     + sizeof("bool")
     + sizeof("bool")
     + 2 * sizeof(T_char)
     + sizeof(T_int64_t)
     + sizeof(T_int)
     + sizeof(T_int) + Sum(names(s.attributes_, s.attribute_num_))
     + sizeof(T_int) + Sum(names(s.dimensions_, s.dim_num_))
     + sizeof(T_int) + 2 * coords_size(s)
     + sizeof(T_int) + (IF s.tile_extents_ = NULL THEN 0 ELSE coords_size(s))
     + (s.attribute_num_ + 1) * sizeof(T_char)
     + s.attribute_num_ * sizeof(T_int)
     + (s.attribute_num_ + 1) * sizeof(T_char)

\* The byte serialize writes for a typeid.
type_code(t) ==
  CASE t = T_char -> TILEDB_CHAR
    [] t = T_int -> TILEDB_INT32
    [] t = T_int64_t -> TILEDB_INT64
    [] t = T_float -> TILEDB_FLOAT32
    [] t = T_double -> TILEDB_FLOAT64

\* One memcpy into the buffer: the member it copies, the bytes, and whether
\* the assertion before it is strict (offset + size < buffer_size).
Write(f, b, strict) == [field |-> f, bytes |-> b, strict |-> strict]

\* size-prefixed strings v[1..n]
name_writes(f, v, n) ==
  LET RECURSIVE W(_)
      W(i) == IF i > n THEN <<>>
              ELSE <<Write(f \o "_size", EncInt(Len(v[i]), 4), TRUE),
                     Write(f, StrBytes(v[i]), TRUE)>> \o W(i + 1)
  IN W(1)

BoolByte(b) == IF b THEN 1 ELSE 0

\* The memcpy calls of serialize, in program order.
serialize_writes(s) ==
     <<Write("array_name_size", EncInt(Len(s.array_name_), 4), TRUE),
       Write("array_name_", StrBytes(s.array_name_), TRUE),
       Write("dense_", <<BoolByte(s.dense_)>>, TRUE),
       Write("key_value_", <<BoolByte(s.key_value_)>>, TRUE),
       Write("tile_order_", EncInt(s.tile_order_, 1), TRUE),
       Write("cell_order_", EncInt(s.cell_order_, 1), TRUE),
       Write("capacity_", EncInt(s.capacity_, 8), TRUE),
       Write("consolidation_step_", EncInt(s.consolidation_step_, 4), TRUE),
       Write("attribute_num_", EncInt(s.attribute_num_, 4), TRUE)>>
  \o name_writes("attribute", s.attributes_, s.attribute_num_)
  \o <<Write("dim_num_", EncInt(s.dim_num_, 4), TRUE)>>
  \o name_writes("dimension", s.dimensions_, s.dim_num_)
  \o <<Write("domain_size", EncInt(2 * coords_size(s), 4), TRUE),
       Write("domain_", memcpy(Deref(s.domain_), 2 * coords_size(s)), TRUE),
       Write("tile_extents_size",
             EncInt(IF s.tile_extents_ = NULL THEN 0 ELSE coords_size(s), 4), TRUE)>>
  \o (IF s.tile_extents_ # NULL
      THEN <<Write("tile_extents_", memcpy(Deref(s.tile_extents_), coords_size(s)), TRUE)>>
      ELSE <<>>)
  \o [i \in 1..(s.attribute_num_ + 1) |->
        Write("type", EncInt(type_code(s.types_[i]), 1), TRUE)]
  \o [i \in 1..s.attribute_num_ |-> Write("val_num", EncInt(s.val_num_[i], 4), TRUE)]
  \o [i \in 1..(s.attribute_num_ + 1) |->
        Write("compression", EncInt(s.compression_[i], 1), FALSE)]

RECURSIVE Flatten(_)
Flatten(w) == IF w = <<>> THEN <<>> ELSE Head(w).bytes \o Flatten(Tail(w))

\* serialize: the buffer of compute_bin_size bytes, its size, and the write
\* offset reached after the last memcpy. A byte of the buffer that no
\* memcpy reached is indeterminate.
serialize(s) ==
  LET written == Flatten(serialize_writes(s))
      size == compute_bin_size(s)
  IN [array_schema_bin |->
        [i \in 1..size |-> IF i <= Len(written) THEN written[i] ELSE "indeterminate"],
      array_schema_bin_size |-> size,
      offset |-> Len(written)]

\* code_type with the char branch storing typeid(int).
code_type_char_as_int(c) ==
  CASE c = TILEDB_CHAR -> T_int
    [] c = TILEDB_INT32 -> T_int
    [] c = TILEDB_INT64 -> T_int64_t
    [] c = TILEDB_FLOAT32 -> T_float
    [] c = TILEDB_FLOAT64 -> T_double
    [] OTHER -> "nullptr"

\* The typeid deserialize stores for a type byte; a byte that is no type
\* code leaves the value-initialised element (a null pointer, size 0).
code_type(c) ==
  CASE c = TILEDB_CHAR -> T_char
    [] c = TILEDB_INT32 -> T_int
    [] c = TILEDB_INT64 -> T_int64_t
    [] c = TILEDB_FLOAT32 -> T_float
    [] c = TILEDB_FLOAT64 -> T_double
    [] OTHER -> "nullptr"

code_type_size(c) == IF code_type(c) = "nullptr" THEN 0 ELSE sizeof(code_type(c))

\* deserialize that does not append the coordinates name.
deserialize_attributes_without_coords(names) == names

\* The attribute names deserialize leaves: those loaded, then the name of
\* the coordinates.
deserialize_attributes(names) == Append(names, TILEDB_COORDS_NAME)

\* memcpy(&x, buffer + offset, n) for an integer x of n bytes.
read_int(buffer, offset, n) == DecInt(SubSeq(buffer, offset + 1, offset + n))

\* n size-prefixed strings from offset on: the strings and the offset reached.
RECURSIVE read_names(_, _, _)
read_names(buffer, offset, n) ==
  IF n = 0 THEN [names |-> <<>>, offset |-> offset]
  ELSE LET size == read_int(buffer, offset, 4)
           name == BytesStr(SubSeq(buffer, offset + 4 + 1, offset + 4 + size))
           rest == read_names(buffer, offset + 4 + size, n - 1)
       IN [names |-> <<name>> \o rest.names, offset |-> rest.offset]

\* deserialize into the object s0; the loaded members, then the derived ones.
deserialize_load(s0, buffer) ==
  LET array_name_size == read_int(buffer, 0, 4)
      o1 == 4 + array_name_size
      attribute_num == read_int(buffer, o1 + 16, 4)
      attrs == read_names(buffer, o1 + 20, attribute_num)
      dim_num == read_int(buffer, attrs.offset, 4)
      dims == read_names(buffer, attrs.offset + 4, dim_num)
      domain_size == read_int(buffer, dims.offset, 4)
      o2 == dims.offset + 4 + domain_size
      tile_extents_size == read_int(buffer, o2, 4)
      o3 == o2 + 4 + tile_extents_size
      o4 == o3 + attribute_num + 1
      o5 == o4 + 4 * attribute_num
      val_num == [i \in 1..attribute_num |-> read_int(buffer, o4 + 4 * (i - 1), 4)]
  IN [offset |-> o5 + attribute_num + 1,
      s |->
        [array_name_ |-> BytesStr(SubSeq(buffer, 5, o1)),
         dense_ |-> buffer[o1 + 1] # 0,
         key_value_ |-> buffer[o1 + 2] # 0,
         tile_order_ |-> read_int(buffer, o1 + 2, 1),
         cell_order_ |-> read_int(buffer, o1 + 3, 1),
         capacity_ |-> read_int(buffer, o1 + 4, 8),
         consolidation_step_ |-> read_int(buffer, o1 + 12, 4),
         attribute_num_ |-> attribute_num,
         attributes_ |-> deserialize_attributes(attrs.names),
         dim_num_ |-> dim_num,
         dimensions_ |-> dims.names,
         domain_ |-> Ptr(SubSeq(buffer, dims.offset + 4 + 1, o2)),
         tile_extents_ |-> IF tile_extents_size = 0 THEN NULL
                           ELSE Ptr(SubSeq(buffer, o2 + 4 + 1, o3)),
         types_ |-> [i \in 1..(attribute_num + 1) |-> code_type(buffer[o3 + i])],
         type_sizes_ |-> [i \in 1..(attribute_num + 1) |-> code_type_size(buffer[o3 + i])],
         var_attribute_num_ |->
           Cardinality({i \in 1..attribute_num : val_num[i] = TILEDB_AS_VAR_SIZE}),
         val_num_ |-> val_num,
         compression_ |-> s0.compression_ \o
                          [i \in 1..(attribute_num + 1) |-> read_int(buffer, o5 + i - 1, 1)]]
        @@ s0]

deserialize(s0, array_schema_bin, array_schema_bin_size) ==
  LET buffer == SubSeq(array_schema_bin, 1, array_schema_bin_size)
      s1 == deserialize_load(s0, buffer).s
      s2 == Assign(s1, "cell_sizes_",
                   [i \in 1..(s1.attribute_num_ + 1) |-> compute_cell_size(s1, i - 1)])
  IN compute_derived(s2)

(* The bounds assertions of the codec *)

\* One memcpy out of the buffer: the member it loads, the number of bytes,
\* and whether the assertion before it is strict.
Read(f, n, strict) == [field |-> f, size |-> n, strict |-> strict]

\* The reads of n size-prefixed strings from offset on, and the offset
\* reached.
RECURSIVE name_reads(_, _, _, _)
name_reads(f, buffer, offset, n) ==
  IF n = 0 THEN [reads |-> <<>>, offset |-> offset]
  ELSE LET size == read_int(buffer, offset, 4)
           rest == name_reads(f, buffer, offset + 4 + size, n - 1)
       IN [reads |-> <<Read(f \o "_size", 4, TRUE), Read(f, size, TRUE)>> \o rest.reads,
           offset |-> rest.offset]

\* The reads of deserialize, every one behind a strict assertion.
deserialize_reads_all_strict(buffer) ==
  LET array_name_size == read_int(buffer, 0, 4)
      o1 == 4 + array_name_size
      attribute_num == read_int(buffer, o1 + 16, 4)
      attrs == name_reads("attribute", buffer, o1 + 20, attribute_num)
      dim_num == read_int(buffer, attrs.offset, 4)
      dims == name_reads("dimension", buffer, attrs.offset + 4, dim_num)
      domain_size == read_int(buffer, dims.offset, 4)
      tile_extents_size == read_int(buffer, dims.offset + 4 + domain_size, 4)
  IN <<Read("array_name_size", 4, TRUE),
       Read("array_name_", array_name_size, TRUE),
       Read("dense_", 1, TRUE),
       Read("key_value_", 1, TRUE),
       Read("tile_order_", 1, TRUE),
       Read("cell_order_", 1, TRUE),
       Read("capacity_", 8, TRUE),
       Read("consolidation_step_", 4, TRUE),
       Read("attribute_num_", 4, TRUE)>>
     \o attrs.reads
     \o <<Read("dim_num_", 4, TRUE)>>
     \o dims.reads
     \o <<Read("domain_size", 4, TRUE),
          Read("domain_", domain_size, TRUE),
          Read("tile_extents_size", 4, TRUE)>>
     \o (IF tile_extents_size = 0 THEN <<>>
         ELSE <<Read("tile_extents_", tile_extents_size, TRUE)>>)
     \o [i \in 1..(attribute_num + 1) |-> Read("type", 1, TRUE)]
     \o [i \in 1..attribute_num |-> Read("val_num", 4, TRUE)]
     \o [i \in 1..(attribute_num + 1) |-> Read("compression", 1, TRUE)]

\* The memcpy calls of deserialize on the buffer, in program order, the
\* sizes being the ones it loads from the buffer on its way.
deserialize_reads(buffer) ==
  LET array_name_size == read_int(buffer, 0, 4)
      o1 == 4 + array_name_size
      attribute_num == read_int(buffer, o1 + 16, 4)
      attrs == name_reads("attribute", buffer, o1 + 20, attribute_num)
      dim_num == read_int(buffer, attrs.offset, 4)
      dims == name_reads("dimension", buffer, attrs.offset + 4, dim_num)
      domain_size == read_int(buffer, dims.offset, 4)
      tile_extents_size == read_int(buffer, dims.offset + 4 + domain_size, 4)
  IN <<Read("array_name_size", 4, TRUE),
       Read("array_name_", array_name_size, TRUE),
       Read("dense_", 1, TRUE),
       Read("key_value_", 1, TRUE),
       Read("tile_order_", 1, TRUE),
       Read("cell_order_", 1, TRUE),
       Read("capacity_", 8, TRUE),
       Read("consolidation_step_", 4, TRUE),
       Read("attribute_num_", 4, TRUE)>>
     \o attrs.reads
     \o <<Read("dim_num_", 4, TRUE)>>
     \o dims.reads
     \o <<Read("domain_size", 4, TRUE),
          Read("domain_", domain_size, TRUE),
          Read("tile_extents_size", 4, TRUE)>>
     \o (IF tile_extents_size = 0 THEN <<>>
         ELSE <<Read("tile_extents_", tile_extents_size, TRUE)>>)
     \o [i \in 1..(attribute_num + 1) |-> Read("type", 1, TRUE)]
     \o [i \in 1..attribute_num |-> Read("val_num", 4, TRUE)]
     \o [i \in 1..(attribute_num + 1) |-> Read("compression", 1, FALSE)]

\* The assertions before the memcpy calls of serialize on s, as reads of
\* the same sizes.
serialize_asserts(s) ==
  LET w == serialize_writes(s)
  IN [i \in 1..Len(w) |-> Read(w[i].field, Len(w[i].bytes), w[i].strict)]

\* The assertions before the copies ops hold from offset on in a buffer of
\* buffer_size bytes: offset + size < buffer_size, or <= when not strict.
RECURSIVE asserts_hold(_, _, _)
asserts_hold(ops, offset, buffer_size) ==
  IF ops = <<>> THEN TRUE
  ELSE /\ IF Head(ops).strict THEN offset + Head(ops).size < buffer_size
          ELSE offset + Head(ops).size <= buffer_size
       /\ asserts_hold(Tail(ops), offset + Head(ops).size, buffer_size)

----------------------------------------------------------------------------
----------------------------------------------------------------------------
(* init as one call: the setters in program order, returning at the first  *)
(* error; used to construct the schemas the positional kernel is run on.   *)

\* The calls of init that can end it, each with the unconditional calls
\* that precede it.
InitCalls ==
  <<"set_attributes", "set_dimensions", "set_compression", "set_types",
    "set_tile_extents", "set_cell_order", "set_tile_order", "set_domain", "compute">>

init_call(c, call, s) ==
  CASE call = "set_attributes" ->
         set_attributes(set_array_name(s, c.array_name_), c.attributes_, c.attribute_num_)
    [] call = "set_dimensions" ->
         set_dimensions(set_capacity(s, c.capacity_), c.dimensions_, c.dim_num_)
    [] call = "set_compression" -> set_compression(s, c.compression_)
    [] call = "set_types" ->
         set_types(set_dense(set_consolidation_step(s, c.consolidation_step_), c.dense_),
                   c.types_)
    [] call = "set_tile_extents" -> set_tile_extents(s, c.tile_extents_)
    [] call = "set_cell_order" -> set_cell_order(s, c.cell_order_)
    [] call = "set_tile_order" -> set_tile_order(s, c.tile_order_)
    [] call = "set_domain" -> set_domain(s, c.domain_)
    [] call = "compute" -> Result(TILEDB_AS_OK, compute_derived(s))

\* init from the given call on: it returns at the first error.
RECURSIVE init_from(_, _, _)
init_from(c, calls, r) ==
  IF r.ret # TILEDB_AS_OK \/ calls = <<>> THEN r
  ELSE CHOOSE x \in {init_from(c, Tail(calls), y) : y \in {init_call(c, Head(calls), r.s)}} :
         TRUE

init_run(c) == init_from(c, InitCalls, Result(TILEDB_AS_OK, ArraySchema))

----------------------------------------------------------------------------
(* The positional kernel *)

Reverse(v) == [i \in 1..Len(v) |-> v[Len(v) + 1 - i]]

Last(v) == v[Len(v)]

\* cell_offsets of get_cell_pos_col after its first loop.
cell_offsets_col(s) ==
  LET RECURSIVE L(_, _)
      L(v, i) == IF i >= s.dim_num_ THEN v
                 ELSE L(Append(v, Last(v) * tile_extents_at(s, i - 1)), i + 1)
  IN L(<<1>>, 1)

\* cell_offsets of get_cell_pos_row after its first loop and the reverse.
cell_offsets_row(s) ==
  LET RECURSIVE L(_, _)
      L(v, i) == IF i < 0 THEN v
                 ELSE L(Append(v, Last(v) * tile_extents_at(s, i + 1)), i - 1)
  IN Reverse(L(<<1>>, s.dim_num_ - 2))

get_cell_pos_col(s, coords) ==
  Sum([i \in 1..s.dim_num_ |-> coords[i] * cell_offsets_col(s)[i]])

\* get_cell_pos_row with the std::reverse left out.
get_cell_pos_row_unreversed(s, coords) ==
  Sum([i \in 1..s.dim_num_ |-> coords[i] * Reverse(cell_offsets_row(s))[i]])

get_cell_pos_row(s, coords) ==
  Sum([i \in 1..s.dim_num_ |-> coords[i] * cell_offsets_row(s)[i]])

\* get_cell_pos returning 0 for any other order.
get_cell_pos_other_order_zero(s, coords) ==
  IF s.cell_order_ = TILEDB_AS_CO_ROW_MAJOR THEN get_cell_pos_row(s, coords)
  ELSE IF s.cell_order_ = TILEDB_AS_CO_COLUMN_MAJOR THEN get_cell_pos_col(s, coords)
  ELSE 0

get_cell_pos(s, coords) ==
  IF s.cell_order_ = TILEDB_AS_CO_ROW_MAJOR THEN get_cell_pos_row(s, coords)
  ELSE IF s.cell_order_ = TILEDB_AS_CO_COLUMN_MAJOR THEN get_cell_pos_col(s, coords)
  ELSE -1

----------------------------------------------------------------------------
(* The inputs init is called with: the ArraySchemaC bundles of the model *)

ScalarInputs ==
  {[array_name_ |-> Str_A, capacity_ |-> 0, consolidation_step_ |-> 0],
   [array_name_ |-> Str_slash_b, capacity_ |-> 2, consolidation_step_ |-> 3]}

AttributesInputs ==
  {[attributes_ |-> NULL, attribute_num_ |-> 1],
   [attributes_ |-> Ptr(<<Str_v>>), attribute_num_ |-> 0],
   [attributes_ |-> Ptr(<<Str_v, Str_w>>), attribute_num_ |-> 2],
   [attributes_ |-> Ptr(<<Str_v, Str_v>>), attribute_num_ |-> 2],
   [attributes_ |-> Ptr(<<Str_x_1>>), attribute_num_ |-> 1]}

DimensionsInputs ==
  {[dimensions_ |-> NULL, dim_num_ |-> 1],
   [dimensions_ |-> Ptr(<<Str_x>>), dim_num_ |-> 0],
   [dimensions_ |-> Ptr(<<Str_x>>), dim_num_ |-> 1],
   [dimensions_ |-> Ptr(<<Str_x, Str_y>>), dim_num_ |-> 2],
   [dimensions_ |-> Ptr(<<Str_x, Str_x>>), dim_num_ |-> 2],
   [dimensions_ |-> Ptr(<<Str_v, Str_y>>), dim_num_ |-> 2]}

\* Compression lists of n+1 entries.
CompressionInputs(n) ==
  {NULL,
   Ptr([i \in 1..(n + 1) |-> IF i % 2 = 1 THEN Str_GZIP ELSE Str_NONE]),
   Ptr([i \in 1..(n + 1) |-> IF i = 2 THEN Str_SNAPPY ELSE Str_NONE])}

AttributeTypeInputs ==
  {<<Str_char \o Str_colon \o Str_var, Str_int32>>,
   <<Str_float64 \o Str_colon \o <<"2">>, Str_int64>>,
   <<Str_int32 \o Str_colon \o <<"0">>, Str_int32>>,
   <<Str_bogus, Str_int32>>,
   <<Str_int64 \o Str_colon \o <<"2">> \o Str_colon \o <<"2">>, Str_int32>>}

CoordinateTypeInputs ==
  {Str_int32, Str_int64, Str_float32, Str_float64,
   Str_char \o Str_colon \o Str_var, Str_bogus}

\* Type lists of n+1 entries: n attribute types and the coordinate type.
TypesInputs(n) ==
  {NULL} \cup
  {Ptr(SubSeq(a, 1, n) \o <<c>>) : a \in AttributeTypeInputs, c \in CoordinateTypeInputs}

\* Extent arrays, one value per dimension (four in key-value mode).
TileExtentsValues ==
  {[i \in 1..4 |-> MaxExtent],
   [i \in 1..4 |-> IF i % 2 = 1 THEN MaxExtent ELSE 1]}

OrderInputs ==
  {NULL, Ptr(Str_row_major), Ptr(Str_column_major), Ptr(Str_hilbert), Ptr(Str_bogus)}

\* Domain arrays, one [lo, hi] pair per dimension (four in key-value mode).
DomainValues ==
  {[k \in 1..8 |-> IF k % 2 = 1 THEN 0 ELSE h] : h \in {0, MaxCoord - 1}} \cup
  {[k \in 1..8 |-> IF k % 2 = 1 THEN -1 ELSE 1],
   [k \in 1..8 |-> IF k % 4 = 1 THEN 0 ELSE IF k % 4 = 2 THEN MaxCoord
                   ELSE IF k % 4 = 3 THEN 1 ELSE MaxCoord - 1],
   [k \in 1..8 |-> IF k % 2 = 1 THEN 1 ELSE 0],
   [k \in 1..8 |-> IF k % 4 \in {0, 1} THEN 0 ELSE 1]}

\* The array a as the caller lays it out for a schema with the coordinate
\* type and dimension number of s.
CoordsBlob(s, a, per_dim) == EncArray(coords_type(s), SubSeq(a, 1, per_dim * s.dim_num_))

----------------------------------------------------------------------------
(* init: one step per setter call, in the order of the source *)

Init ==
  /\ readers = NULL
  /\ pc = "set_array_name"
  /\ array_schema_c \in ScalarInputs
  /\ schema = ArraySchema
  /\ bin = NULL
  /\ copy = ArraySchema
  /\ copy_bin = NULL
  /\ cell_query = NULL
  /\ tile_walk = NULL
  /\ last_call = NULL

\* InitStep that goes on to the next setter whatever the setter returned.
InitStep_return_ignored(in, r, next) ==
  /\ array_schema_c' = in @@ array_schema_c
  /\ schema' = r.s
  /\ pc' = next
  /\ UNCHANGED <<bin, copy, copy_bin, cell_query, tile_walk, last_call, readers>>

\* init reads the fields `in` of the bundle, the setter returns r.
InitStep(in, r, next) ==
  /\ array_schema_c' = in @@ array_schema_c
  /\ schema' = r.s
  /\ pc' = IF r.ret # TILEDB_AS_OK THEN "err" ELSE next
  /\ UNCHANGED <<bin, copy, copy_bin, cell_query, tile_walk, last_call, readers>>

init_set_array_name ==
  /\ pc = "set_array_name"
  /\ schema' = set_array_name(schema, array_schema_c.array_name_)
  /\ pc' = "set_attributes"
  /\ UNCHANGED <<array_schema_c, bin, copy, copy_bin, cell_query, tile_walk, last_call, readers>>

init_set_attributes ==
  /\ pc = "set_attributes"
  /\ \E in \in AttributesInputs :
       InitStep(in, set_attributes(schema, in.attributes_, in.attribute_num_), "set_capacity")

init_set_capacity ==
  /\ pc = "set_capacity"
  /\ schema' = set_capacity(schema, array_schema_c.capacity_)
  /\ pc' = "set_dimensions"
  /\ UNCHANGED <<array_schema_c, bin, copy, copy_bin, cell_query, tile_walk, last_call, readers>>

init_set_dimensions ==
  /\ pc = "set_dimensions"
  /\ \E in \in DimensionsInputs :
       InitStep(in, set_dimensions(schema, in.dimensions_, in.dim_num_), "set_compression")

init_set_compression ==
  /\ pc = "set_compression"
  /\ \E c \in CompressionInputs(schema.attribute_num_) :
       InitStep([compression_ |-> c], set_compression(schema, c), "set_consolidation_step")

init_set_consolidation_step ==
  /\ pc = "set_consolidation_step"
  /\ schema' = set_consolidation_step(schema, array_schema_c.consolidation_step_)
  /\ pc' = "set_dense"
  /\ UNCHANGED <<array_schema_c, bin, copy, copy_bin, cell_query, tile_walk, last_call, readers>>

init_set_dense ==
  /\ pc = "set_dense"
  /\ \E d \in {0, 1} :
       InitStep([dense_ |-> d], Result(TILEDB_AS_OK, set_dense(schema, d)), "set_types")

init_set_types ==
  /\ pc = "set_types"
  /\ \E t \in TypesInputs(schema.attribute_num_) :
       InitStep([types_ |-> t], set_types(schema, t), "set_tile_extents")

init_set_tile_extents ==
  /\ pc = "set_tile_extents"
  /\ \E e \in {NULL} \cup {Ptr(CoordsBlob(schema, a, 1)) : a \in TileExtentsValues} :
       InitStep([tile_extents_ |-> e], set_tile_extents(schema, e), "set_cell_order")

init_set_cell_order ==
  /\ pc = "set_cell_order"
  /\ \E o \in OrderInputs :
       InitStep([cell_order_ |-> o], set_cell_order(schema, o), "set_tile_order")

init_set_tile_order ==
  /\ pc = "set_tile_order"
  /\ \E o \in OrderInputs :
       InitStep([tile_order_ |-> o], set_tile_order(schema, o), "set_domain")

init_set_domain ==
  /\ pc = "set_domain"
  /\ \E d \in {NULL} \cup {Ptr(CoordsBlob(schema, a, 2)) : a \in DomainValues} :
       InitStep([domain_ |-> d], set_domain(schema, d), "compute")

\* The closing calls of init; it then returns TILEDB_AS_OK.
init_compute ==
  /\ pc = "compute"
  /\ schema' = compute_derived(schema)
  /\ pc' = IF compute_cell_num_per_tile_assert(schema) THEN "done" ELSE "abort"
  /\ UNCHANGED <<array_schema_c, bin, copy, copy_bin, cell_query, tile_walk, last_call, readers>>

init ==
  \/ init_set_array_name
  \/ init_set_attributes
  \/ init_set_capacity
  \/ init_set_dimensions
  \/ init_set_compression
  \/ init_set_consolidation_step
  \/ init_set_dense
  \/ init_set_types
  \/ init_set_tile_extents
  \/ init_set_cell_order
  \/ init_set_tile_order
  \/ init_set_domain
  \/ init_compute

\* serialize on the schema init produced.
serialize_schema ==
  /\ pc = "done"
  /\ bin = NULL
  /\ bin' = Ptr(serialize(schema))
  /\ UNCHANGED <<pc, array_schema_c, schema, copy, copy_bin, cell_query, tile_walk, last_call, readers>>

\* deserialize of that buffer into a freshly constructed object.
deserialize_copy ==
  /\ bin # NULL
  /\ copy = ArraySchema
  /\ copy' = deserialize(copy, Deref(bin).array_schema_bin,
                         Deref(bin).array_schema_bin_size)
  /\ UNCHANGED <<pc, array_schema_c, schema, bin, copy_bin, cell_query, tile_walk, last_call, readers>>

\* serialize on the deserialized object.
serialize_copy ==
  /\ copy # ArraySchema
  /\ copy_bin = NULL
  /\ copy_bin' = Ptr(serialize(copy))
  /\ UNCHANGED <<pc, array_schema_c, schema, bin, copy, cell_query, tile_walk, last_call, readers>>

Next ==
  \/ init
  \/ serialize_schema
  \/ deserialize_copy
  \/ serialize_copy

Spec == Init /\ [][Next]_vars

----------------------------------------------------------------------------
(* The positional kernel on schemas with regular tiles *)

\* Bundles of arrays with integer coordinates, one to three dimensions:
\* with tile extents and row- or column-major cells, or without tile extents
\* and cells in Hilbert order.
KernelInputs ==
  {[array_name_ |-> Str_A,
    attributes_ |-> Ptr(<<Str_v>>), attribute_num_ |-> 1,
    capacity_ |-> 0,
    dimensions_ |-> Ptr(dims), dim_num_ |-> Len(dims),
    compression_ |-> NULL,
    consolidation_step_ |-> 0,
    dense_ |-> dense,
    types_ |-> Ptr(<<Str_int32, t>>),
    tile_extents_ |-> IF o = Ptr(Str_hilbert) THEN NULL
                      ELSE Ptr(EncArray(Deref(typeid_of(t)), SubSeq(e, 1, Len(dims)))),
    cell_order_ |-> o,
    tile_order_ |-> NULL,
    domain_ |-> Ptr(EncArray(Deref(typeid_of(t)),
                             [k \in 1..(2 * Len(dims)) |-> IF k % 2 = 1 THEN 0 ELSE MaxCoord]))] :
     dims \in {<<Str_x>>, <<Str_x, Str_y>>, <<Str_x, Str_y, Str_z>>},
     dense \in {0, 1},
     t \in {Str_int32, Str_int64},
     e \in TileExtentsValues,
     o \in {NULL, Ptr(Str_row_major), Ptr(Str_column_major), Ptr(Str_hilbert)}}

InitKernel ==
  /\ readers = NULL
  /\ pc = "done"
  /\ array_schema_c \in KernelInputs
  /\ init_run(array_schema_c).ret = TILEDB_AS_OK
  /\ schema = init_run(array_schema_c).s
  /\ bin = NULL
  /\ copy = ArraySchema
  /\ copy_bin = NULL
  /\ cell_query = <<>>
  /\ tile_walk = NULL
  /\ last_call = NULL

\* The coordinates inside one tile, relative to its first cell.
TileLocalCoords(s) ==
  {c \in [1..s.dim_num_ -> 0..(MaxExtent - 1)] :
     \A i \in 1..s.dim_num_ : c[i] < tile_extents_at(s, i - 1)}

\* The coordinates get_cell_pos is called with: those of a tile, or any
\* when the schema has no tiles to be local to.
CellQueryCoords(s) ==
  IF s.tile_extents_ # NULL THEN TileLocalCoords(s)
  ELSE [1..s.dim_num_ -> 0..(MaxExtent - 1)]

\* A call of get_cell_pos; cell_query keeps the last two calls, latest first.
\* The row and column variants read the tile extents, so the call needs
\* them unless the cell order is Hilbert.
get_cell_pos_call ==
  /\ pc = "done"
  /\ schema.tile_extents_ # NULL \/ schema.cell_order_ = TILEDB_AS_CO_HILBERT
  /\ \E coords \in CellQueryCoords(schema) :
       cell_query' = <<[coords |-> coords, pos |-> get_cell_pos(schema, coords)]>>
                     \o SubSeq(cell_query, 1, IF Len(cell_query) >= 1 THEN 1 ELSE 0)
  /\ UNCHANGED <<pc, array_schema_c, schema, bin, copy, copy_bin, tile_walk, last_call, readers>>

NextKernel == get_cell_pos_call

SpecKernel == InitKernel /\ [][NextKernel]_vars

----------------------------------------------------------------------------
(* Tile enumeration: get_next_tile_coords *)

\* The while loop of get_next_tile_coords_col from index i on.
get_next_tile_coords_col_loop(s, domain, tile_coords, i) ==
  LET RECURSIVE L(_, _)
      L(tc, k) ==
        IF k < s.dim_num_ - 1 /\ At(tc, k) > At(domain, 2 * k + 1)
        THEN L([tc EXCEPT ![k + 1] = At(domain, 2 * k), ![k + 2] = @ + 1], k + 1)
        ELSE tc
  IN L(tile_coords, i)

get_next_tile_coords_col(s, domain, tile_coords) ==
  get_next_tile_coords_col_loop(s, domain, [tile_coords EXCEPT ![1] = @ + 1], 0)

\* The while loop of get_next_tile_coords_row from index i on.
get_next_tile_coords_row_loop(s, domain, tile_coords, i) ==
  LET RECURSIVE L(_, _)
      L(tc, k) ==
        IF k > 0 /\ At(tc, k) > At(domain, 2 * k + 1)
        THEN L([tc EXCEPT ![k + 1] = At(domain, 2 * k), ![k] = @ + 1], k - 1)
        ELSE tc
  IN L(tile_coords, i)

\* get_next_tile_coords_row whose carry does not reset the dimension.
get_next_tile_coords_row_no_reset(s, domain, tile_coords) ==
  LET RECURSIVE L(_, _)
      L(tc, k) ==
        IF k > 0 /\ At(tc, k) > At(domain, 2 * k + 1)
        THEN L([tc EXCEPT ![k] = @ + 1], k - 1)
        ELSE tc
  IN L([tile_coords EXCEPT ![s.dim_num_] = @ + 1], s.dim_num_ - 1)

get_next_tile_coords_row(s, domain, tile_coords) ==
  get_next_tile_coords_row_loop(s, domain,
    [tile_coords EXCEPT ![s.dim_num_] = @ + 1], s.dim_num_ - 1)

\* tile_coords after the call; no branch is taken for Hilbert tile order.
get_next_tile_coords(s, domain, tile_coords) ==
  IF s.tile_order_ = TILEDB_AS_TO_ROW_MAJOR
  THEN get_next_tile_coords_row(s, domain, tile_coords)
  ELSE IF s.tile_order_ = TILEDB_AS_TO_COLUMN_MAJOR
  THEN get_next_tile_coords_col(s, domain, tile_coords)
  ELSE tile_coords

\* Bundles of arrays with integer coordinates and tile extents, one to
\* three dimensions, every accepted tile order token.
TileWalkInputs ==
  {[array_name_ |-> Str_A,
    attributes_ |-> Ptr(<<Str_v>>), attribute_num_ |-> 1,
    capacity_ |-> 0,
    dimensions_ |-> Ptr(dims), dim_num_ |-> Len(dims),
    compression_ |-> NULL,
    consolidation_step_ |-> 0,
    dense_ |-> 1,
    types_ |-> Ptr(<<Str_int32, t>>),
    tile_extents_ |-> Ptr(EncArray(Deref(typeid_of(t)), SubSeq(e, 1, Len(dims)))),
    cell_order_ |-> NULL,
    tile_order_ |-> o,
    domain_ |-> Ptr(EncArray(Deref(typeid_of(t)),
                             [k \in 1..(2 * Len(dims)) |-> IF k % 2 = 1 THEN 0 ELSE MaxCoord]))] :
     dims \in {<<Str_x>>, <<Str_x, Str_y>>, <<Str_x, Str_y, Str_z>>},
     t \in {Str_int32, Str_int64},
     e \in TileExtentsValues \cup {[i \in 1..4 |-> IF i % 2 = 1 THEN 1 ELSE MaxExtent]},
     o \in {NULL, Ptr(Str_row_major), Ptr(Str_column_major)}}

\* The domains a caller walks: the tile domain of the schema, and the same
\* box one tile further in every dimension.
TileWalkDomains(s) ==
  {tile_domain_array(s), [k \in 1..(2 * s.dim_num_) |-> tile_domain_array(s)[k] + 1]}

\* c lies in the box d = [lo_0, hi_0, lo_1, hi_1, ...].
InBox(d, c) == \A i \in 1..Len(c) : d[2 * i - 1] <= c[i] /\ c[i] <= d[2 * i]

InitTileWalk ==
  /\ readers = NULL
  /\ pc = "done"
  /\ array_schema_c \in TileWalkInputs
  /\ init_run(array_schema_c).ret = TILEDB_AS_OK
  /\ schema = init_run(array_schema_c).s
  /\ bin = NULL
  /\ copy = ArraySchema
  /\ copy_bin = NULL
  /\ cell_query = NULL
  /\ last_call = NULL
  /\ \E d \in TileWalkDomains(schema) :
       tile_walk = [domain |-> d,
                    visited |-> <<[i \in 1..schema.dim_num_ |-> d[2 * i - 1]]>>]

\* One iteration of the caller's loop: while the coordinates are in the
\* domain, get_next_tile_coords moves them on.
get_next_tile_coords_call ==
  /\ pc = "done"
  /\ tile_walk # NULL
  /\ InBox(tile_walk.domain, Last(tile_walk.visited))
  /\ tile_walk' =
       [tile_walk EXCEPT !.visited =
          Append(@, get_next_tile_coords(schema, tile_walk.domain, Last(tile_walk.visited)))]
  /\ UNCHANGED <<pc, array_schema_c, schema, bin, copy, copy_bin, cell_query, last_call, readers>>

NextTileWalk == get_next_tile_coords_call

SpecTileWalk == InitTileWalk /\ [][NextTileWalk]_vars

----------------------------------------------------------------------------
(* Overlap of a range with an MBR and with a tile *)

Maximum(a, b) == IF a >= b THEN a ELSE b
Minimum(a, b) == IF a <= b THEN a ELSE b

\* The dimensions (from 0) the contiguity loops of the two overlap
\* functions visit: i = 1 .. dim_num_-1 for row-major cell order,
\* i = dim_num_-2 .. 0 for column-major, none for any other cell order.
overlap_contig_dims_all_but_major(s) ==
  IF s.cell_order_ = TILEDB_AS_CO_ROW_MAJOR THEN 0..(s.dim_num_ - 2)
  ELSE IF s.cell_order_ = TILEDB_AS_CO_COLUMN_MAJOR THEN 1..(s.dim_num_ - 1)
  ELSE {}

overlap_contig_dims(s) ==
  IF s.cell_order_ = TILEDB_AS_CO_ROW_MAJOR THEN 1..(s.dim_num_ - 1)
  ELSE IF s.cell_order_ = TILEDB_AS_CO_COLUMN_MAJOR THEN 0..(s.dim_num_ - 2)
  ELSE {}

\* compute_mbr_range_overlap that returns the range as the overlap range.
compute_mbr_range_overlap_range_copied(s, range, mbr) ==
  [overlap_range |-> range,
   overlap |-> IF \E i \in 0..(s.dim_num_ - 1) :
                     At(range, 2 * i) > At(mbr, 2 * i + 1) \/ At(range, 2 * i + 1) < At(mbr, 2 * i)
               THEN 0 ELSE 1]

compute_mbr_range_overlap(s, range, mbr) ==
  LET overlap_range ==
        [k \in 1..(2 * s.dim_num_) |->
           IF k % 2 = 1 THEN Maximum(mbr[k], range[k]) ELSE Minimum(mbr[k], range[k])]
      differs(i) == \/ At(overlap_range, 2 * i) # At(mbr, 2 * i)
                    \/ At(overlap_range, 2 * i + 1) # At(mbr, 2 * i + 1)
      overlap1 == IF \E i \in 0..(s.dim_num_ - 1) :
                       \/ At(overlap_range, 2 * i) > At(mbr, 2 * i + 1)
                       \/ At(overlap_range, 2 * i + 1) < At(mbr, 2 * i)
                  THEN 0 ELSE 1
      overlap2 == IF overlap1 = 1 /\ \E i \in 0..(s.dim_num_ - 1) : differs(i)
                  THEN 2 ELSE overlap1
      overlap3 == IF overlap2 = 2 /\ s.cell_order_ # TILEDB_AS_CO_HILBERT
                  THEN IF \E i \in overlap_contig_dims(s) : differs(i) THEN 2 ELSE 3
                  ELSE overlap2
  IN [overlap_range |-> overlap_range, overlap |-> overlap3]

\* The first and last cell of the tile at tile_coords, per dimension.
tile_range_of(s, tile_coords) ==
  [k \in 1..(2 * s.dim_num_) |->
     LET i == (k - 1) \div 2
         lo == domain_at(s, 2 * i) + At(tile_coords, i) * tile_extents_at(s, i)
     IN IF k % 2 = 1 THEN lo ELSE lo + tile_extents_at(s, i) - 1]

\* compute_tile_range_overlap that leaves the overlap in array coordinates.
compute_tile_range_overlap_absolute(s, range, tile_coords) ==
  LET tile_range == tile_range_of(s, tile_coords)
      overlap_range ==
        [k \in 1..(2 * s.dim_num_) |->
           IF k % 2 = 1 THEN Maximum(tile_range[k], range[k])
           ELSE Minimum(tile_range[k], range[k])]
  IN [overlap_range |-> overlap_range,
      overlap |-> IF \E i \in 0..(s.dim_num_ - 1) :
                        At(overlap_range, 2 * i) > At(overlap_range, 2 * i + 1)
                  THEN 0
                  ELSE IF overlap_range = tile_range THEN 1 ELSE 2]

compute_tile_range_overlap(s, range, tile_coords) ==
  LET tile_range == tile_range_of(s, tile_coords)
      overlap_range ==
        [k \in 1..(2 * s.dim_num_) |->
           LET i == (k - 1) \div 2
           IN IF k % 2 = 1
              THEN Maximum(tile_range[k], range[k]) - At(tile_range, 2 * i)
              ELSE Minimum(tile_range[k], range[k]) - At(tile_range, 2 * i)]
      differs(i) == \/ At(overlap_range, 2 * i) # 0
                    \/ At(overlap_range, 2 * i + 1) # tile_extents_at(s, i) - 1
      overlap1 == IF \E i \in 0..(s.dim_num_ - 1) :
                       \/ At(overlap_range, 2 * i) >= tile_extents_at(s, i)
                       \/ At(overlap_range, 2 * i + 1) < 0
                  THEN 0 ELSE 1
      overlap2 == IF overlap1 > 0 /\ \E i \in 0..(s.dim_num_ - 1) : differs(i)
                  THEN 2 ELSE overlap1
      overlap3 == IF overlap2 = 2
                  THEN IF \E i \in overlap_contig_dims(s) : differs(i) THEN 2 ELSE 3
                  ELSE overlap2
  IN [overlap_range |-> overlap_range, overlap |-> overlap3]

\* Bundles of arrays with integer coordinates, one to three dimensions,
\* every cell order init accepts, with tile extents where init accepts them.
OverlapInputs ==
  {[array_name_ |-> Str_A,
    attributes_ |-> Ptr(<<Str_v>>), attribute_num_ |-> 1,
    capacity_ |-> 0,
    dimensions_ |-> Ptr(dims), dim_num_ |-> Len(dims),
    compression_ |-> NULL,
    consolidation_step_ |-> 0,
    dense_ |-> 0,
    types_ |-> Ptr(<<Str_int32, Str_int32>>),
    tile_extents_ |-> IF o = Ptr(Str_hilbert) THEN NULL
                      ELSE Ptr(EncArray(T_int, [i \in 1..Len(dims) |->
                                                  IF i % 2 = 1 THEN MaxExtent ELSE 1])),
    cell_order_ |-> o,
    tile_order_ |-> NULL,
    domain_ |-> Ptr(EncArray(T_int,
                             [k \in 1..(2 * Len(dims)) |-> IF k % 2 = 1 THEN 0 ELSE MaxCoord]))] :
     dims \in {<<Str_x>>, <<Str_x, Str_y>>, <<Str_x, Str_y, Str_z>>},
     o \in {NULL, Ptr(Str_row_major), Ptr(Str_column_major), Ptr(Str_hilbert)}}

\* The buffer serialize gives for s, with the byte of the cell order
\* replaced by the code of the Hilbert order: a schema file as another
\* writer may have left it.
hilbert_bin(s) ==
  LET b == serialize(s)
  IN [b EXCEPT !.array_schema_bin[4 + Len(s.array_name_) + 4] = TILEDB_AS_CO_HILBERT]

\* [lo, hi] pairs with lo <= hi, one per dimension, drawn from pairs.
Boxes(n, pairs) ==
  {r \in [1..(2 * n) -> 0..MaxCoord] :
     \A i \in 1..n : <<r[2 * i - 1], r[2 * i]>> \in pairs}

\* The ranges of the calls: every pair over 0..MaxCoord for at most two
\* dimensions; above, a cell of the lower bound, an inner cell and the
\* whole domain.
OverlapRanges(n) ==
  Boxes(n, IF n <= 2
           THEN {p \in (0..MaxCoord) \X (0..MaxCoord) : p[1] <= p[2]}
           ELSE {<<0, 0>>, <<1, 1>>, <<0, MaxCoord>>})

\* The MBRs of the calls, strictly inside 0..MaxCoord so that a range can
\* pass them on either side.
OverlapMbrs(n) ==
  Boxes(n, IF n <= 2
           THEN {p \in (1..(MaxCoord - 1)) \X (1..(MaxCoord - 1)) : p[1] <= p[2]}
           ELSE {<<1, 1>>, <<1, MaxCoord - 1>>})

\* The coordinates of the tiles of the tile domain of s.
TileDomainCoords(s) ==
  {c \in [1..s.dim_num_ -> 0..MaxCoord] : InBox(tile_domain_array(s), c)}

\* The schema is the one init built, or the one deserialize loaded from
\* hilbert_bin of it.
InitOverlap ==
  /\ readers = NULL
  /\ pc = "done"
  /\ array_schema_c \in OverlapInputs
  /\ init_run(array_schema_c).ret = TILEDB_AS_OK
  /\ \E loaded \in BOOLEAN :
       LET built == init_run(array_schema_c).s
       IN IF loaded
          THEN /\ bin = Ptr(hilbert_bin(built))
               /\ schema = deserialize(ArraySchema, Deref(bin).array_schema_bin,
                                       Deref(bin).array_schema_bin_size)
          ELSE /\ bin = NULL
               /\ schema = built
  /\ copy = ArraySchema
  /\ copy_bin = NULL
  /\ cell_query = NULL
  /\ tile_walk = NULL
  /\ last_call = NULL

compute_mbr_range_overlap_call ==
  /\ pc = "done"
  /\ last_call = NULL
  /\ \E range \in OverlapRanges(schema.dim_num_), mbr \in OverlapMbrs(schema.dim_num_) :
       last_call' = [op |-> "compute_mbr_range_overlap", range |-> range, mbr |-> mbr]
                    @@ compute_mbr_range_overlap(schema, range, mbr)
  /\ UNCHANGED <<pc, array_schema_c, schema, bin, copy, copy_bin, cell_query, tile_walk, readers>>

\* compute_tile_range_overlap reads tile_extents_, so it is called on
\* schemas that have them.
compute_tile_range_overlap_call ==
  /\ pc = "done"
  /\ schema.tile_extents_ # NULL
  /\ last_call = NULL
  /\ \E range \in OverlapRanges(schema.dim_num_), tile_coords \in TileDomainCoords(schema) :
       last_call' = [op |-> "compute_tile_range_overlap", range |-> range,
                     tile_coords |-> tile_coords]
                    @@ compute_tile_range_overlap(schema, range, tile_coords)
  /\ UNCHANGED <<pc, array_schema_c, schema, bin, copy, copy_bin, cell_query, tile_walk, readers>>

NextOverlap ==
  \/ compute_mbr_range_overlap_call
  \/ compute_tile_range_overlap_call

SpecOverlap == InitOverlap /\ [][NextOverlap]_vars

----------------------------------------------------------------------------
(* Attribute lookup: attribute, attribute_id, get_attribute_ids *)

attribute(s, attribute_id) == At(s.attributes_, attribute_id)

\* attribute_id without the special case of the coordinates.
attribute_id_without_coords(s, name) ==
  LET RECURSIVE Loop(_)
      Loop(i) == IF i >= s.attribute_num_ THEN TILEDB_AS_ERR
                 ELSE IF At(s.attributes_, i) = name THEN i
                 ELSE Loop(i + 1)
  IN Loop(0)

attribute_id(s, name) ==
  LET RECURSIVE Loop(_)
      Loop(i) == IF i >= s.attribute_num_ THEN TILEDB_AS_ERR
                 ELSE IF At(s.attributes_, i) = name THEN i
                 ELSE Loop(i + 1)
  IN IF name = TILEDB_COORDS_NAME THEN s.attribute_num_ ELSE Loop(0)

\* The return code, and attribute_ids as the call leaves it.
get_attribute_ids(s, attributes) ==
  LET RECURSIVE Loop(_, _)
      Loop(i, attribute_ids) ==
        IF i >= Len(attributes) THEN [ret |-> TILEDB_AS_OK, attribute_ids |-> attribute_ids]
        ELSE LET id == attribute_id(s, At(attributes, i))
             IN IF id = TILEDB_AS_ERR
                THEN [ret |-> TILEDB_AS_ERR, attribute_ids |-> attribute_ids]
                ELSE Loop(i + 1, Append(attribute_ids, id))
  IN Loop(0, <<>>)

\* Bundles that differ in their attribute names, among them lists init
\* rejects, with plain and key-value coordinates.
LookupInputs ==
  {[array_name_ |-> Str_A,
    attributes_ |-> Ptr(attrs), attribute_num_ |-> Len(attrs),
    capacity_ |-> 0,
    dimensions_ |-> Ptr(dims), dim_num_ |-> Len(dims),
    compression_ |-> NULL,
    consolidation_step_ |-> 0,
    dense_ |-> 0,
    types_ |-> Ptr([i \in 1..Len(attrs) |-> Str_int32] \o <<t>>),
    tile_extents_ |-> NULL,
    cell_order_ |-> NULL,
    tile_order_ |-> NULL,
    domain_ |-> Ptr(EncArray(T_int, [k \in 1..8 |-> IF k % 2 = 1 THEN 0 ELSE MaxCoord]))] :
     attrs \in {<<Str_v>>, <<Str_v, Str_w>>, <<Str_w, Str_v>>, <<Str_x_1>>,
                <<Str_v, Str_v>>, <<Str_v, TILEDB_COORDS_NAME>>, <<Str_v, Str_y, Str_w>>},
     dims \in {<<Str_x>>, <<Str_x, Str_y>>},
     t \in {Str_int32, Str_char \o Str_colon \o Str_var}}

\* The names looked up: attributes, dimensions, the coordinates, and a name
\* of no schema.
LookupNames == {Str_v, Str_w, Str_x, Str_x_1, TILEDB_COORDS_NAME, Str_bogus}

\* Name lists of at most MaxNames names.
MaxNames == 2

LookupLists ==
  UNION {[1..n -> LookupNames] : n \in 0..MaxNames}

\* The schema is the one init built, or the one deserialize loaded from
\* the buffer serialize wrote for it.
InitLookup ==
  /\ readers = NULL
  /\ pc = "done"
  /\ array_schema_c \in LookupInputs
  /\ init_run(array_schema_c).ret = TILEDB_AS_OK
  /\ \E loaded \in BOOLEAN :
       LET built == init_run(array_schema_c).s
       IN IF loaded
          THEN /\ bin = Ptr(serialize(built))
               /\ schema = deserialize(ArraySchema, Deref(bin).array_schema_bin,
                                       Deref(bin).array_schema_bin_size)
          ELSE /\ bin = NULL
               /\ schema = built
  /\ copy = ArraySchema
  /\ copy_bin = NULL
  /\ cell_query = NULL
  /\ tile_walk = NULL
  /\ last_call = NULL

attribute_id_call ==
  /\ pc = "done"
  /\ last_call = NULL
  /\ \E name \in LookupNames :
       last_call' = [op |-> "attribute_id", attribute |-> name,
                     ret |-> attribute_id(schema, name)]
  /\ UNCHANGED <<pc, array_schema_c, schema, bin, copy, copy_bin, cell_query, tile_walk, readers>>

get_attribute_ids_call ==
  /\ pc = "done"
  /\ last_call = NULL
  /\ \E attributes \in LookupLists :
       last_call' = [op |-> "get_attribute_ids", attributes |-> attributes]
                    @@ get_attribute_ids(schema, attributes)
  /\ UNCHANGED <<pc, array_schema_c, schema, bin, copy, copy_bin, cell_query, tile_walk, readers>>

NextLookup ==
  \/ attribute_id_call
  \/ get_attribute_ids_call

SpecLookup == InitLookup /\ [][NextLookup]_vars

----------------------------------------------------------------------------
(* deserialize on buffers that carry unknown order codes *)

\* The value deserialize returns: its only return statement is the closing
\* return TILEDB_AS_OK.
deserialize_ret(s0, array_schema_bin, array_schema_bin_size) == TILEDB_AS_OK

\* The places (from 1) of the tile order and cell order bytes of a buffer:
\* after the size-prefixed array name and the bytes of dense_ and key_value_.
tile_order_byte(buffer) == 4 + read_int(buffer, 0, 4) + 3
cell_order_byte(buffer) == 4 + read_int(buffer, 0, 4) + 4

\* Bytes that are the code of no tile or cell order, within the values the
\* enumerations can hold.
UnknownOrderCodes == {3}

\* Buffers as serialize writes them, and the same with one order byte
\* replaced; the sizes and every other byte are kept, so that each assert
\* of deserialize on the offsets holds.
BinVariants(b) ==
  {b} \cup
  {[b EXCEPT !.array_schema_bin[k] = c] :
     k \in {tile_order_byte(b.array_schema_bin), cell_order_byte(b.array_schema_bin)},
     c \in UnknownOrderCodes \cup {TILEDB_AS_CO_ROW_MAJOR, TILEDB_AS_CO_COLUMN_MAJOR}}

InitCorrupt ==
  /\ readers = NULL
  /\ pc = "done"
  /\ array_schema_c \in OverlapInputs \cup LookupInputs
  /\ init_run(array_schema_c).ret = TILEDB_AS_OK
  /\ schema = init_run(array_schema_c).s
  /\ bin \in {Ptr(b) : b \in BinVariants(serialize(schema))}
  /\ copy = ArraySchema
  /\ copy_bin = NULL
  /\ cell_query = NULL
  /\ tile_walk = NULL
  /\ last_call = NULL

\* deserialize of the buffer into a freshly constructed object.
deserialize_call ==
  /\ pc = "done"
  /\ bin # NULL
  /\ last_call = NULL
  /\ copy' = deserialize(copy, Deref(bin).array_schema_bin, Deref(bin).array_schema_bin_size)
  /\ last_call' = [op |-> "deserialize",
                   ret |-> deserialize_ret(copy, Deref(bin).array_schema_bin,
                                           Deref(bin).array_schema_bin_size)]
  /\ UNCHANGED <<pc, array_schema_c, schema, bin, copy_bin, cell_query, tile_walk, readers>>

NextCorrupt == deserialize_call

SpecCorrupt == InitCorrupt /\ [][NextCorrupt]_vars

----------------------------------------------------------------------------
(* init on tile extents of either sign, and tile_num *)

\* a / b of C on integers, b # 0: the quotient truncated towards zero.
TruncDiv(a, b) ==
  LET abs(x) == IF x < 0 THEN -x ELSE x
      q == abs(a) \div abs(b)
  IN IF (a < 0) = (b < 0) THEN q ELSE -q

tile_num(s) ==
  Product([i \in 1..s.dim_num_ |->
             TruncDiv(domain_at(s, 2 * (i - 1) + 1) - domain_at(s, 2 * (i - 1)) + 1,
                      tile_extents_at(s, i - 1))])

\* Extent arrays as a caller may pass them: positive values, and -1.
SignedTileExtentsValues ==
  TileExtentsValues \cup
  {[i \in 1..4 |-> -1],
   [i \in 1..4 |-> IF i % 2 = 1 THEN MaxExtent ELSE -1]}

\* Bundles with integer coordinates over [0, MaxCoord] that differ in
\* their tile extents, density and cell order.
ExtentsInputs ==
  {[array_name_ |-> Str_A,
    attributes_ |-> Ptr(<<Str_v>>), attribute_num_ |-> 1,
    capacity_ |-> 0,
    dimensions_ |-> Ptr(dims), dim_num_ |-> Len(dims),
    compression_ |-> NULL,
    consolidation_step_ |-> 0,
    dense_ |-> dense,
    types_ |-> Ptr(<<Str_int32, t>>),
    tile_extents_ |-> IF e = NULL THEN NULL
                      ELSE Ptr(EncArray(Deref(typeid_of(t)), SubSeq(e, 1, Len(dims)))),
    cell_order_ |-> o,
    tile_order_ |-> NULL,
    domain_ |-> Ptr(EncArray(Deref(typeid_of(t)),
                             [k \in 1..(2 * Len(dims)) |-> IF k % 2 = 1 THEN 0 ELSE MaxCoord]))] :
     dims \in {<<Str_x>>, <<Str_x, Str_y>>},
     dense \in {0, 1},
     t \in {Str_int32, Str_int64},
     e \in {NULL} \cup SignedTileExtentsValues,
     o \in {NULL, Ptr(Str_column_major), Ptr(Str_hilbert)}}

InitExtents ==
  /\ readers = NULL
  /\ pc = "init"
  /\ array_schema_c \in ExtentsInputs
  /\ schema = ArraySchema
  /\ bin = NULL
  /\ copy = ArraySchema
  /\ copy_bin = NULL
  /\ cell_query = NULL
  /\ tile_walk = NULL
  /\ last_call = NULL

\* init as one call on the bundle.
init_whole ==
  /\ pc = "init"
  /\ schema' = init_run(array_schema_c).s
  /\ pc' = IF init_run(array_schema_c).ret = TILEDB_AS_OK THEN "done" ELSE "err"
  /\ UNCHANGED <<array_schema_c, bin, copy, copy_bin, cell_query, tile_walk, last_call, readers>>

\* tile_num() on a schema with integer coordinates (the dispatcher asserts
\* on any other type) and tile extents.
tile_num_call ==
  /\ pc = "done"
  /\ schema.tile_extents_ # NULL
  /\ coords_type(schema) \in {T_int, T_int64_t}
  /\ last_call = NULL
  /\ last_call' = [op |-> "tile_num", ret |-> tile_num(schema)]
  /\ UNCHANGED <<pc, array_schema_c, schema, bin, copy, copy_bin, cell_query, tile_walk, readers>>

NextExtents ==
  \/ init_whole
  \/ tile_num_call

SpecExtents == InitExtents /\ [][NextExtents]_vars

----------------------------------------------------------------------------
(* Readers of one schema: hilbert_id step by step, other reads in one step *)

\* hilbert_id_write that stores the coordinate as the caller gave it.
hilbert_id_write_absolute(s, coords, i) ==
  Assign(s, "coords_for_hilbert_",
         Ptr([Deref(s.coords_for_hilbert_) EXCEPT ![i + 1] = At(coords, i)]))

\* One iteration of the loop of hilbert_id: the write of element i of the
\* scratch buffer of the schema.

hilbert_id_write(s, coords, i) ==
  Assign(s, "coords_for_hilbert_",
         Ptr([Deref(s.coords_for_hilbert_) EXCEPT ![i + 1] = At(coords, i) - domain_at(s, 2 * i)]))

\* The coordinates hilbert_id hands to coords_to_hilbert: the scratch buffer
\* as it is at the call.
hilbert_id_passed(s) == Deref(s.coords_for_hilbert_)

\* The threads that read the schema.
Readers == {"r1", "r2"}

\* Sparse bundles with int32 coordinates on one and two dimensions, with
\* Hilbert cell order, or row-major cell order and tile extents; the domain
\* starts at 1, or has one cell per dimension.
ReadersInputs ==
  {[array_name_ |-> Str_A,
    attributes_ |-> Ptr(<<Str_v>>), attribute_num_ |-> 1,
    capacity_ |-> 0,
    dimensions_ |-> Ptr(dims), dim_num_ |-> Len(dims),
    compression_ |-> NULL,
    consolidation_step_ |-> 0,
    dense_ |-> 0,
    types_ |-> Ptr(<<Str_int32, Str_int32>>),
    tile_extents_ |-> IF o = NULL
                      THEN Ptr(EncArray(T_int, [i \in 1..Len(dims) |->
                                                  IF i % 2 = 1 THEN MaxExtent ELSE 1]))
                      ELSE NULL,
    cell_order_ |-> o,
    tile_order_ |-> NULL,
    domain_ |-> Ptr(EncArray(T_int,
                             [k \in 1..(2 * Len(dims)) |-> IF k % 2 = 1 THEN lo ELSE hi]))] :
     dims \in {<<Str_x>>, <<Str_x, Str_y>>},
     o \in {NULL, Ptr(Str_hilbert)},
     lo \in {1},
     hi \in {1, MaxCoord}}

\* The coordinates inside the domain of s.
DomainCoords(s) ==
  {c \in [1..s.dim_num_ -> 0..MaxCoord] :
     \A i \in 1..s.dim_num_ : domain_at(s, 2 * (i - 1)) <= c[i] /\ c[i] <= domain_at(s, 2 * i - 1)}

InitReaders ==
  /\ pc = "done"
  /\ array_schema_c \in ReadersInputs
  /\ init_run(array_schema_c).ret = TILEDB_AS_OK
  /\ schema = init_run(array_schema_c).s
  /\ bin = NULL
  /\ copy = ArraySchema
  /\ copy_bin = NULL
  /\ cell_query = NULL
  /\ tile_walk = NULL
  /\ last_call = NULL
  /\ readers = [t \in Readers |-> NULL]

\* Reader t enters hilbert_id(coords).
hilbert_id_enter(t) ==
  /\ readers[t] = NULL
  /\ schema.cell_order_ = TILEDB_AS_CO_HILBERT
  /\ \E coords \in DomainCoords(schema) :
       readers' = [readers EXCEPT ![t] =
                     [op |-> "hilbert_id", at |-> "write", coords |-> coords, i |-> 0,
                      passed |-> NULL]]
  /\ UNCHANGED <<pc, array_schema_c, schema, bin, copy, copy_bin, cell_query, tile_walk,
                 last_call>>

\* Reader t runs one iteration of the loop of hilbert_id.
hilbert_id_step(t) ==
  /\ readers[t] # NULL
  /\ readers[t].at = "write"
  /\ schema' = hilbert_id_write(schema, readers[t].coords, readers[t].i)
  /\ readers' = [readers EXCEPT ![t].i = @ + 1,
                                ![t].at = IF readers[t].i + 1 < schema.dim_num_
                                          THEN "write" ELSE "call"]
  /\ UNCHANGED <<pc, array_schema_c, bin, copy, copy_bin, cell_query, tile_walk, last_call>>

\* Reader t calls coords_to_hilbert on the scratch buffer and returns.
hilbert_id_call(t) ==
  /\ readers[t] # NULL
  /\ readers[t].at = "call"
  /\ readers' = [readers EXCEPT ![t].passed = hilbert_id_passed(schema), ![t].at = "done"]
  /\ UNCHANGED <<pc, array_schema_c, schema, bin, copy, copy_bin, cell_query, tile_walk,
                 last_call>>

\* Reader t runs one of the other read operations from call to return.
read_call(t) ==
  /\ readers[t] = NULL
  /\ \E op \in {"serialize", "attribute_id", "tile_num", "get_cell_pos"} :
       /\ op \in {"tile_num", "get_cell_pos"} => schema.tile_extents_ # NULL
       /\ readers' = [readers EXCEPT ![t] =
            [op |-> op, at |-> "done",
             ret |-> CASE op = "serialize" -> serialize(schema).array_schema_bin_size
                       [] op = "attribute_id" -> attribute_id(schema, Str_v)
                       [] op = "tile_num" -> tile_num(schema)
                       [] op = "get_cell_pos" ->
                            get_cell_pos(schema, [i \in 1..schema.dim_num_ |-> 0])]]
  /\ UNCHANGED <<pc, array_schema_c, schema, bin, copy, copy_bin, cell_query, tile_walk,
                 last_call>>

NextReaders ==
  \E t \in Readers :
    \/ hilbert_id_enter(t)
    \/ hilbert_id_step(t)
    \/ hilbert_id_call(t)
    \/ read_call(t)

SpecReaders == InitReaders /\ [][NextReaders]_vars

----------------------------------------------------------------------------
(* The tile grid: get_tile_pos on schemas with regular tiles *)

\* The per-dimension tile count of get_tile_pos_col and get_tile_pos_row.
tile_pos_tile_num(s, i) ==
  TruncDiv(domain_at(s, 2 * i + 1) - domain_at(s, 2 * i) + 1, tile_extents_at(s, i))

tile_offsets_col(s) ==
  LET RECURSIVE L(_, _)
      L(v, i) == IF i >= s.dim_num_ THEN v
                 ELSE L(Append(v, Last(v) * tile_pos_tile_num(s, i - 1)), i + 1)
  IN L(<<1>>, 1)

tile_offsets_row(s) ==
  LET RECURSIVE L(_, _)
      L(v, i) == IF i < 0 THEN v
                 ELSE L(Append(v, Last(v) * tile_pos_tile_num(s, i + 1)), i - 1)
  IN Reverse(L(<<1>>, s.dim_num_ - 2))

get_tile_pos_col(s, tile_coords) ==
  Sum([i \in 1..s.dim_num_ |-> tile_coords[i] * tile_offsets_col(s)[i]])

get_tile_pos_row(s, tile_coords) ==
  Sum([i \in 1..s.dim_num_ |-> tile_coords[i] * tile_offsets_row(s)[i]])

\* The value of the variant get_tile_pos calls for the tile order of s.
get_tile_pos_variant(s, tile_coords) ==
  IF s.tile_order_ = TILEDB_AS_TO_ROW_MAJOR THEN get_tile_pos_row(s, tile_coords)
  ELSE get_tile_pos_col(s, tile_coords)

\* Values an int64_t that was never assigned can hold.
IndeterminateInt64 == -1..(MaxCoord + 1)

\* get_tile_pos calls the variant of the tile order and discards its value;
\* control then reaches the end of the function without a return statement,
\* so the value the caller receives is indeterminate: the value the variant
\* left behind, or any other.
get_tile_pos(s, tile_coords) ==
  {get_tile_pos_variant(s, tile_coords)} \cup IndeterminateInt64

\* Bundles with tile extents (and, sparse, without), coordinates of every
\* type, one and two dimensions, domains whose width is and is not a
\* multiple of the extent.
TilesInputs ==
  {[array_name_ |-> Str_A,
    attributes_ |-> Ptr(<<Str_v>>), attribute_num_ |-> 1,
    capacity_ |-> 0,
    dimensions_ |-> Ptr(dims), dim_num_ |-> Len(dims),
    compression_ |-> NULL,
    consolidation_step_ |-> 0,
    dense_ |-> dense,
    types_ |-> Ptr(<<Str_int32, t>>),
    tile_extents_ |-> IF e = NULL THEN NULL
                      ELSE Ptr(EncArray(Deref(typeid_of(t)), SubSeq(e, 1, Len(dims)))),
    cell_order_ |-> NULL,
    tile_order_ |-> o,
    domain_ |-> Ptr(EncArray(Deref(typeid_of(t)),
                             [k \in 1..(2 * Len(dims)) |-> IF k % 2 = 1 THEN 0 ELSE hi]))] :
     dims \in {<<Str_x>>, <<Str_x, Str_y>>},
     dense \in {0, 1},
     t \in {Str_int32, Str_int64, Str_float32, Str_float64},
     e \in {NULL} \cup TileExtentsValues,
     o \in {Ptr(Str_row_major), Ptr(Str_column_major)},
     hi \in {MaxCoord - 1, MaxCoord}}

InitTiles ==
  /\ readers = NULL
  /\ pc = "done"
  /\ array_schema_c \in TilesInputs
  /\ init_run(array_schema_c).ret = TILEDB_AS_OK
  /\ schema = init_run(array_schema_c).s
  /\ bin = NULL
  /\ copy = ArraySchema
  /\ copy_bin = NULL
  /\ cell_query = NULL
  /\ tile_walk = NULL
  /\ last_call = NULL

\* get_tile_pos on the coordinates of a tile of the tile domain.
get_tile_pos_call ==
  /\ pc = "done"
  /\ schema.tile_extents_ # NULL
  /\ coords_type(schema) \in {T_int, T_int64_t}
  /\ last_call = NULL
  /\ \E tile_coords \in TileDomainCoords(schema) :
       \E ret \in get_tile_pos(schema, tile_coords) :
         last_call' = [op |-> "get_tile_pos", tile_coords |-> tile_coords, ret |-> ret]
  /\ UNCHANGED <<pc, array_schema_c, schema, bin, copy, copy_bin, cell_query, tile_walk,
                 readers>>

NextTiles ==
  \/ get_tile_pos_call
  \/ tile_num_call

SpecTiles == InitTiles /\ [][NextTiles]_vars

----------------------------------------------------------------------------
(* Properties of the codec *)

\* The members serialize stores and the members computed from them.
PrimaryFields ==
  {"array_name_", "dense_", "key_value_", "tile_order_", "cell_order_",
   "capacity_", "consolidation_step_", "attribute_num_", "attributes_",
   "dim_num_", "dimensions_", "domain_", "tile_extents_", "types_",
   "val_num_", "compression_"}

DerivedFields ==
  {"var_attribute_num_", "type_sizes_", "cell_sizes_", "cell_num_per_tile_",
   "tile_sizes_", "tile_domain_", "hilbert_bits_"}

\* C1: the schema deserialized from the bytes serialize wrote for a schema
\* init produced has the same members as that schema and the same value in
\* every primary member (the attribute names ending in the coordinates
\* name) and in every derived member.
C1_RoundTrip ==
  copy # ArraySchema =>
    /\ DOMAIN copy = DOMAIN schema
    /\ PrimaryFields \subseteq DOMAIN copy
    /\ Last(copy.attributes_) = TILEDB_COORDS_NAME
    /\ \A f \in (PrimaryFields \cup DerivedFields) \cap DOMAIN schema :
         copy[f] = schema[f]

\* A key-value schema with tile extents and a variable-sized attribute has
\* been serialized and deserialized.
C1_Witness ==
  /\ pc = "done"
  /\ copy # ArraySchema
  /\ copy.key_value_
  /\ copy.tile_extents_ # NULL
  /\ copy.var_attribute_num_ = 1
  /\ copy.attribute_num_ = 2

\* C2: serializing the deserialized schema gives a buffer of the length of
\* the first serialization, holding the same bytes.
C2_ReserializeEqual ==
  copy_bin # NULL =>
    /\ Deref(copy_bin).array_schema_bin_size = Deref(bin).array_schema_bin_size
    /\ Deref(copy_bin).array_schema_bin = Deref(bin).array_schema_bin

\* A sparse schema with a char attribute, float coordinates and Hilbert cell
\* order has been serialized, deserialized and serialized again.
C2_Witness ==
  /\ copy_bin # NULL
  /\ At(schema.types_, 0) = T_char
  /\ coords_type(schema) = T_float
  /\ schema.cell_order_ = TILEDB_AS_CO_HILBERT
  /\ Len(Deref(copy_bin).array_schema_bin) > 0

\* The documented layout of the buffer for schema s: each field with its
\* width in bytes, in order.
DocumentedLayout(s) ==
  LET names(f, v, n) ==
        [k \in 1..(2 * n) |->
           IF k % 2 = 1 THEN <<f \o "_size", 4>> ELSE <<f, Len(v[k \div 2])>>]
  IN    << <<"array_name_size", 4>>, <<"array_name_", Len(s.array_name_)>>,
           <<"dense_", 1>>, <<"key_value_", 1>>,
           <<"tile_order_", 1>>, <<"cell_order_", 1>>,
           <<"capacity_", 8>>, <<"consolidation_step_", 4>>,
           <<"attribute_num_", 4>> >>
     \o names("attribute", s.attributes_, s.attribute_num_)
     \o << <<"dim_num_", 4>> >>
     \o names("dimension", s.dimensions_, s.dim_num_)
     \o << <<"domain_size", 4>>, <<"domain_", 2 * coords_size(s)>>,
           <<"tile_extents_size", 4>> >>
     \o (IF s.tile_extents_ # NULL
         THEN << <<"tile_extents_", coords_size(s)>> >> ELSE <<>>)
     \o [i \in 1..(s.attribute_num_ + 1) |-> <<"type", 1>>]
     \o [i \in 1..s.attribute_num_ |-> <<"val_num", 4>>]
     \o [i \in 1..(s.attribute_num_ + 1) |-> <<"compression", 1>>]

\* b is what serialize returns for s: the fields in the documented order,
\* the write offset ending at the size compute_bin_size gave.
SerializedExactly(s, b) ==
  /\ LET w == serialize_writes(s)
     IN [i \in 1..Len(w) |-> <<w[i].field, Len(w[i].bytes)>>] = DocumentedLayout(s)
  /\ b.array_schema_bin_size = compute_bin_size(s)
  /\ b.offset = b.array_schema_bin_size
  /\ Len(b.array_schema_bin) = b.array_schema_bin_size

\* C3: for a schema init produced and for a schema deserialize produced,
\* serialize writes the fields in the documented order and its final write
\* offset equals the size computed by compute_bin_size.
C3_SerializeExact ==
  /\ bin # NULL => SerializedExactly(schema, Deref(bin))
  /\ copy_bin # NULL => SerializedExactly(copy, Deref(copy_bin))

\* A deserialized key-value schema with two attributes and no tile extents
\* has been serialized.
C3_Witness ==
  /\ copy_bin # NULL
  /\ copy.tile_extents_ = NULL
  /\ copy.attribute_num_ = 2
  /\ copy.dim_num_ = 4
  /\ Len(copy.array_name_) > 1

----------------------------------------------------------------------------
(* Properties of the builder *)

\* C4: after a successful init no name is both an attribute and a dimension
\* and neither list repeats a name; an input with a dimension named as an
\* attribute makes init return an error.
C4_NameDisjointness ==
  /\ pc = "done" =>
       LET attrs == SubSeq(schema.attributes_, 1, schema.attribute_num_)
           dims == SubSeq(schema.dimensions_, 1, schema.dim_num_)
       IN /\ Range(attrs) \cap Range(dims) = {}
          /\ Cardinality(Range(attrs)) = Len(attrs)
          /\ Cardinality(Range(dims)) = Len(dims)
  /\ ( /\ "dimensions_" \in DOMAIN array_schema_c
       /\ array_schema_c.attributes_ # NULL
       /\ array_schema_c.dimensions_ # NULL
       /\ Range(Deref(array_schema_c.attributes_))
            \cap Range(Deref(array_schema_c.dimensions_)) # {} )
     => pc = "err"

\* The domain init was given, read in the coordinate type of the schema.
InputDomainAt(k) == Elem(coords_type(schema), Deref(array_schema_c.domain_), k)

\* C5: a schema init produced has lo <= hi in every dimension, compared in
\* the coordinate type; init given a domain with lo > hi in some dimension
\* returns an error.
C5_DomainMonotone ==
  /\ pc = "done" =>
       \A i \in 0..(schema.dim_num_ - 1) :
         domain_at(schema, 2 * i) <= domain_at(schema, 2 * i + 1)
  /\ ( /\ "domain_" \in DOMAIN array_schema_c
       /\ array_schema_c.domain_ # NULL
       /\ \E i \in 0..(schema.dim_num_ - 1) :
            InputDomainAt(2 * i) > InputDomainAt(2 * i + 1) )
     => pc = "err"

\* init succeeded on a two-dimensional float domain with a negative bound.
C5_Witness ==
  /\ pc = "done"
  /\ coords_type(schema) = T_float
  /\ schema.dim_num_ = 2
  /\ domain_at(schema, 0) < 0
  /\ domain_at(schema, 0) < domain_at(schema, 1)

\* C6: a dense schema init produced has tile extents; init with dense set
\* and null tile extents returns an error.
C6_DenseHasExtents ==
  /\ (pc = "done" /\ schema.dense_) => schema.tile_extents_ # NULL
  /\ ( /\ "tile_extents_" \in DOMAIN array_schema_c
       /\ array_schema_c.dense_ # 0
       /\ array_schema_c.tile_extents_ = NULL )
     => pc = "err"

\* init succeeded on a dense two-dimensional array.
C6_Witness ==
  /\ pc = "done"
  /\ schema.dense_
  /\ schema.dim_num_ = 2
  /\ array_schema_c.tile_extents_ # NULL

\* C7: a schema init produced with Hilbert cell order or Hilbert tile order
\* has no tile extents; init given "hilbert" for either order together with
\* tile extents returns an error.
C7_HilbertNoExtents ==
  /\ ( /\ pc = "done"
       /\ \/ schema.cell_order_ = TILEDB_AS_CO_HILBERT
          \/ schema.tile_order_ = TILEDB_AS_TO_HILBERT )
     => schema.tile_extents_ = NULL
  /\ ( /\ "cell_order_" \in DOMAIN array_schema_c
       /\ array_schema_c.cell_order_ = Ptr(Str_hilbert)
       /\ array_schema_c.tile_extents_ # NULL )
     => pc = "err"
  /\ ( /\ "tile_order_" \in DOMAIN array_schema_c
       /\ array_schema_c.tile_order_ = Ptr(Str_hilbert)
       /\ array_schema_c.tile_extents_ # NULL )
     => pc = "err"

\* init succeeded with Hilbert tile order and row-major cell order.
C7_Witness ==
  /\ pc = "done"
  /\ schema.tile_order_ = TILEDB_AS_TO_HILBERT
  /\ schema.cell_order_ = TILEDB_AS_CO_ROW_MAJOR
  /\ schema.tile_extents_ = NULL

\* The cell sizes of s follow from its value numbers and types.
CellSizeIdentity(s) ==
  /\ \A a \in 0..(s.attribute_num_ - 1) :
       IF At(s.val_num_, a) = TILEDB_AS_VAR_SIZE
       THEN At(s.cell_sizes_, a) = TILEDB_AS_VAR_SIZE
       ELSE IsSize(At(s.cell_sizes_, a), At(s.val_num_, a) * sizeof(At(s.types_, a)))
  /\ coords_size(s) = At(s.cell_sizes_, s.attribute_num_)
  /\ IsSize(coords_size(s), s.dim_num_ * sizeof(coords_type(s)))
  /\ s.key_value_ => s.dim_num_ = 4

\* C8: in a schema init or deserialize produced, a fixed-sized attribute has
\* cell size val_num x type size, a variable-sized one has cell size VAR,
\* and the coordinates size is dim_num x the coordinate type size, with
\* four dimensions in key-value mode.
C8_CellSizes ==
  /\ pc = "done" => CellSizeIdentity(schema)
  /\ copy # ArraySchema => CellSizeIdentity(copy)

\* A key-value schema with a two-valued double attribute was deserialized.
C8_Witness ==
  /\ copy # ArraySchema
  /\ copy.key_value_
  /\ At(copy.val_num_, 0) = 2
  /\ At(copy.types_, 0) = T_double
  /\ At(copy.cell_sizes_, 0) = 16

\* The tile sizes of s are its cell count per tile times the per-cell size.
TileSizeIdentity(s) ==
  /\ s.cell_num_per_tile_ >= 1
  /\ \A a \in 0..s.attribute_num_ :
       IsSize(At(s.tile_sizes_, a),
              s.cell_num_per_tile_ *
                (IF var_size(s, a) THEN TILEDB_CELL_VAR_OFFSET_SIZE
                 ELSE At(s.cell_sizes_, a)))

\* C9 as stated: in every schema init produced, sparse schemas with tile
\* extents included, each tile size is the cell count per tile times the
\* offset size (variable-sized) or the cell size (fixed-sized).
C9_TileSizesEverySchema ==
  pc = "done" => TileSizeIdentity(schema)

\* C9: in a schema init produced that is dense or has no tile extents, each
\* tile size is the cell count per tile times the offset size or the cell
\* size; in a sparse schema with tile extents the cell count per tile is
\* still the -1 of the constructor.
C9_TileSizes ==
  /\ (pc = "done" /\ (schema.dense_ \/ schema.tile_extents_ = NULL))
       => TileSizeIdentity(schema)
  /\ (pc = "done" /\ ~schema.dense_ /\ schema.tile_extents_ # NULL)
       => schema.cell_num_per_tile_ = -1

\* init succeeded on a dense array with a variable-sized attribute.
C9_Witness ==
  /\ pc = "done"
  /\ schema.dense_
  /\ schema.var_attribute_num_ = 1
  /\ schema.cell_num_per_tile_ > 1

----------------------------------------------------------------------------
(* Properties of the positional kernel *)

\* c1 precedes c2 comparing from the first dimension on.
LexLessFirstMajor(c1, c2) ==
  \E i \in 1..Len(c1) : c1[i] < c2[i] /\ \A j \in 1..(i - 1) : c1[j] = c2[j]

\* c1 precedes c2 comparing from the last dimension on.
LexLessLastMajor(c1, c2) ==
  \E i \in 1..Len(c1) : c1[i] < c2[i] /\ \A j \in (i + 1)..Len(c1) : c1[j] = c2[j]

\* C10 as stated: row-major positions order two coordinates of a tile as
\* the comparison with the last dimension most significant does, and
\* column-major positions as the one with the first dimension most
\* significant does.
C10_RowMajorLastDimension ==
  Len(cell_query) = 2 =>
    LET q1 == cell_query[2]
        q2 == cell_query[1]
    IN /\ schema.cell_order_ = TILEDB_AS_CO_ROW_MAJOR =>
            (q1.pos < q2.pos <=> LexLessLastMajor(q1.coords, q2.coords))
       /\ schema.cell_order_ = TILEDB_AS_CO_COLUMN_MAJOR =>
            (q1.pos < q2.pos <=> LexLessFirstMajor(q1.coords, q2.coords))

\* C10: row-major positions order two coordinates of a tile as the
\* comparison with the first dimension most significant does, and
\* column-major positions as the one with the last dimension most
\* significant does.
C10_PositionMonotone ==
  Len(cell_query) = 2 =>
    LET q1 == cell_query[2]
        q2 == cell_query[1]
    IN /\ schema.cell_order_ = TILEDB_AS_CO_ROW_MAJOR =>
            (q1.pos < q2.pos <=> LexLessFirstMajor(q1.coords, q2.coords))
       /\ schema.cell_order_ = TILEDB_AS_CO_COLUMN_MAJOR =>
            (q1.pos < q2.pos <=> LexLessLastMajor(q1.coords, q2.coords))

\* Two cells of a three-dimensional row-major tile were located on which
\* the two comparisons disagree.
C10_Witness ==
  /\ Len(cell_query) = 2
  /\ schema.dim_num_ = 3
  /\ schema.cell_order_ = TILEDB_AS_CO_ROW_MAJOR
  /\ cell_query[2].pos < cell_query[1].pos
  /\ LexLessFirstMajor(cell_query[2].coords, cell_query[1].coords)
  /\ ~LexLessLastMajor(cell_query[2].coords, cell_query[1].coords)

----------------------------------------------------------------------------
(* Properties of the tile enumeration *)

\* The tile coordinates of the box d of n dimensions.
BoxCoords(d, n) == {c \in [1..n -> 0..(MaxCoord + 2)] : InBox(d, c)}

\* The number of coordinates of the box d in dimension i.
BoxWidth(d, i) == d[2 * i] - d[2 * i - 1] + 1

\* The place of c in the enumeration of the box d with the last dimension
\* running fastest, and with the first dimension running fastest.
RowMajorRank(d, c) ==
  Sum([i \in 1..Len(c) |->
         (c[i] - d[2 * i - 1]) * Product([j \in 1..(Len(c) - i) |-> BoxWidth(d, i + j)])])

ColMajorRank(d, c) ==
  Sum([i \in 1..Len(c) |->
         (c[i] - d[2 * i - 1]) * Product([j \in 1..(i - 1) |-> BoxWidth(d, j)])])

\* C11: with row- or column-major tile order, the walk that starts at the
\* lower corner of the domain and calls get_next_tile_coords while the
\* coordinates are in the domain visits the coordinates of the domain in the
\* order of the tile order (row-major: last dimension fastest; column-major:
\* first dimension fastest), each exactly once, and the call made at the last
\* coordinate leaves the most significant dimension at hi + 1 and every
\* other dimension at its lower bound.
C11_TileWalk ==
  tile_walk # NULL =>
    LET d == tile_walk.domain
        v == tile_walk.visited
        n == schema.dim_num_
        row == schema.tile_order_ = TILEDB_AS_TO_ROW_MAJOR
        major == IF row THEN 1 ELSE n
        total == Product([i \in 1..n |-> BoxWidth(d, i)])
        inside == IF InBox(d, Last(v)) THEN Len(v) ELSE Len(v) - 1
    IN /\ \A k \in 1..inside :
            /\ InBox(d, v[k])
            /\ (IF row THEN RowMajorRank(d, v[k]) ELSE ColMajorRank(d, v[k])) = k - 1
       /\ \A k, l \in 1..inside : v[k] = v[l] => k = l
       /\ inside <= total
       /\ ~InBox(d, Last(v)) =>
            /\ inside = total
            /\ {v[k] : k \in 1..inside} = BoxCoords(d, n)
            /\ Last(v)[major] = d[2 * major] + 1
            /\ \A i \in (1..n) \ {major} : Last(v)[i] = d[2 * i - 1]

\* A walk over a two-dimensional domain that does not start at 0, in
\* column-major tile order, has made its last call.
C11_Witness ==
  /\ tile_walk # NULL
  /\ schema.dim_num_ = 2
  /\ schema.tile_order_ = TILEDB_AS_TO_COLUMN_MAJOR
  /\ tile_walk.domain[1] = 1
  /\ Len(tile_walk.visited) > 4
  /\ ~InBox(tile_walk.domain, Last(tile_walk.visited))

----------------------------------------------------------------------------
(* Properties of the overlap functions *)

\* The boxes a and b have no common cell in dimension i (from 1).
DisjointIn(a, b, i) == a[2 * i] < b[2 * i - 1] \/ b[2 * i] < a[2 * i - 1]

\* The box a contains the box b in dimension i (from 1).
CoversIn(a, b, i) == a[2 * i - 1] <= b[2 * i - 1] /\ b[2 * i] <= a[2 * i]

\* The intersection of the boxes a and b, per dimension.
Intersection(a, b) ==
  [k \in 1..Len(a) |-> IF k % 2 = 1 THEN Maximum(a[k], b[k]) ELSE Minimum(a[k], b[k])]

MbrCall == last_call # NULL /\ last_call.op = "compute_mbr_range_overlap"
TileCall == last_call # NULL /\ last_call.op = "compute_tile_range_overlap"

\* C12: compute_mbr_range_overlap returns 0 exactly when range and mbr are
\* disjoint in some dimension, 1 exactly when the range contains the mbr in
\* every dimension (then the overlap range is the mbr), 2 or 3 otherwise, and
\* whenever the code is not 0 the overlap range is [max(lo), min(hi)] per
\* dimension.
C12_MbrOverlapCodes ==
  MbrCall =>
    LET n == schema.dim_num_
        range == last_call.range
        mbr == last_call.mbr
        disjoint == \E i \in 1..n : DisjointIn(range, mbr, i)
        full == \A i \in 1..n : CoversIn(range, mbr, i)
    IN /\ last_call.overlap = 0 <=> disjoint
       /\ last_call.overlap = 1 <=> full
       /\ last_call.overlap = 1 => last_call.overlap_range = mbr
       /\ ~disjoint /\ ~full => last_call.overlap \in {2, 3}
       /\ last_call.overlap # 0 => last_call.overlap_range = Intersection(range, mbr)

\* A two-dimensional range that is larger than the mbr got code 1.
C12_Witness ==
  /\ MbrCall
  /\ schema.dim_num_ = 2
  /\ last_call.overlap = 1
  /\ last_call.range # last_call.mbr

\* The box the range of the last call is compared with: the mbr, or the
\* cells of the tile.
CallBox ==
  IF last_call.op = "compute_mbr_range_overlap" THEN last_call.mbr
  ELSE tile_range_of(schema, last_call.tile_coords)

\* The range of the last call meets the box in every dimension without
\* containing it in every dimension.
PartialOverlap ==
  /\ \A i \in 1..schema.dim_num_ : ~DisjointIn(last_call.range, CallBox, i)
  /\ \E i \in 1..schema.dim_num_ : ~CoversIn(last_call.range, CallBox, i)

\* The range of the last call contains the box in every dimension of dims.
OverlapWholeOn(dims) == \A i \in dims : CoversIn(last_call.range, CallBox, i)

RowOrColumnMajorCells ==
  schema.cell_order_ \in {TILEDB_AS_CO_ROW_MAJOR, TILEDB_AS_CO_COLUMN_MAJOR}

\* C13 as stated: both overlap functions return 3 exactly when the overlap
\* is partial and equals the mbr (the whole tile) along every dimension
\* except the last one for row-major cell order, the first one for
\* column-major cell order; every other partial overlap returns 2.
C13_ContigExceptLastForRowMajor ==
  (MbrCall \/ TileCall) /\ RowOrColumnMajorCells =>
    LET n == schema.dim_num_
        others == IF schema.cell_order_ = TILEDB_AS_CO_ROW_MAJOR
                  THEN 1..(n - 1) ELSE 2..n
    IN /\ last_call.overlap = 3 <=> PartialOverlap /\ OverlapWholeOn(others)
       /\ PartialOverlap /\ ~OverlapWholeOn(others) => last_call.overlap = 2

\* C13, amended: with row- or column-major cell order both overlap
\* functions return 3 exactly when the overlap is partial and equals the mbr
\* (the whole tile) along every dimension except the first one for row-major
\* cell order, the last one for column-major cell order; every other partial
\* overlap returns 2.
C13_ContigExceptFirstForRowMajor ==
  (MbrCall \/ TileCall) /\ RowOrColumnMajorCells =>
    LET n == schema.dim_num_
        others == IF schema.cell_order_ = TILEDB_AS_CO_ROW_MAJOR
                  THEN 2..n ELSE 1..(n - 1)
    IN /\ last_call.overlap = 3 <=> PartialOverlap /\ OverlapWholeOn(others)
       /\ last_call.overlap = 2 <=> PartialOverlap /\ ~OverlapWholeOn(others)

\* A row-major call on two dimensions whose range cuts the first dimension
\* only got code 3.
C13_Witness ==
  /\ MbrCall \/ TileCall
  /\ schema.cell_order_ = TILEDB_AS_CO_ROW_MAJOR
  /\ schema.dim_num_ = 2
  /\ last_call.overlap = 3
  /\ ~CoversIn(last_call.range, CallBox, 1)
  /\ CoversIn(last_call.range, CallBox, 2)

C14_HilbertMbrNeverContig ==
  MbrCall /\ schema.cell_order_ = TILEDB_AS_CO_HILBERT =>
    /\ last_call.overlap # 3
    /\ PartialOverlap => last_call.overlap = 2

\* C15: for a range with lo <= hi and tile coordinates in the tile domain,
\* compute_tile_range_overlap returns 0 exactly when the range misses the
\* cells of the tile in some dimension, 1 exactly when the range contains
\* them in every dimension, and whenever the code is not 0 the overlap range
\* is the intersection of range and tile relative to the first cell of the
\* tile, with 0 <= lo_i <= hi_i <= extent_i - 1 in every dimension.
C15_TileOverlapLocal ==
  TileCall =>
    LET n == schema.dim_num_
        range == last_call.range
        tile == tile_range_of(schema, last_call.tile_coords)
        o == last_call.overlap_range
    IN /\ \A i \in 1..n :
            /\ tile[2 * i - 1] = domain_at(schema, 2 * (i - 1))
                                 + last_call.tile_coords[i] * tile_extents_at(schema, i - 1)
            /\ tile[2 * i] = domain_at(schema, 2 * (i - 1))
                             + (last_call.tile_coords[i] + 1) * tile_extents_at(schema, i - 1) - 1
       /\ last_call.overlap = 0 <=> \E i \in 1..n : DisjointIn(range, tile, i)
       /\ last_call.overlap = 1 <=> \A i \in 1..n : CoversIn(range, tile, i)
       /\ last_call.overlap # 0 =>
            \A i \in 1..n :
              /\ 0 <= o[2 * i - 1]
              /\ o[2 * i - 1] <= o[2 * i]
              /\ o[2 * i] <= tile_extents_at(schema, i - 1) - 1
              /\ o[2 * i - 1] = Intersection(range, tile)[2 * i - 1] - tile[2 * i - 1]
              /\ o[2 * i] = Intersection(range, tile)[2 * i] - tile[2 * i - 1]

\* A range that starts inside a tile other than the first one, on two
\* dimensions, got a code other than 0.
C15_Witness ==
  /\ TileCall
  /\ schema.dim_num_ = 2
  /\ last_call.tile_coords[1] > 0
  /\ last_call.overlap # 0
  /\ last_call.overlap_range[1] > 0

----------------------------------------------------------------------------
(* Properties of the attribute lookup *)

\* The ids of the names of v up to, not including, its first name that is
\* no attribute and not the coordinates.
RECURSIVE ResolvedPrefix(_, _)
ResolvedPrefix(ids, v) ==
  IF v = <<>> \/ Head(v) \notin Range(schema.attributes_) THEN ids
  ELSE ResolvedPrefix(
         Append(ids, CHOOSE i \in 0..schema.attribute_num_ :
                       schema.attributes_[i + 1] = Head(v)),
         Tail(v))

\* C16: on a schema from a successful init or deserialize, attribute_id
\* returns the index of the attribute of that name, attribute_num for
\* __coords and the error value for any other name, so that
\* attribute_id(attribute(i)) = i for i in 0..attribute_num;
\* get_attribute_ids returns OK and the ids in input order when every name
\* resolves, and an error at the first name that does not.
C16_AttributeLookup ==
  /\ \A i \in 0..schema.attribute_num_ : attribute_id(schema, attribute(schema, i)) = i
  /\ (last_call # NULL /\ last_call.op = "attribute_id") =>
       /\ \A i \in 0..(schema.attribute_num_ - 1) :
            schema.attributes_[i + 1] = last_call.attribute => last_call.ret = i
       /\ last_call.attribute = TILEDB_COORDS_NAME => last_call.ret = schema.attribute_num_
       /\ last_call.attribute \notin Range(schema.attributes_) => last_call.ret = TILEDB_AS_ERR
  /\ (last_call # NULL /\ last_call.op = "get_attribute_ids") =>
       LET names == last_call.attributes
           resolved == \A k \in 1..Len(names) : names[k] \in Range(schema.attributes_)
       IN /\ last_call.ret = (IF resolved THEN TILEDB_AS_OK ELSE TILEDB_AS_ERR)
          /\ last_call.attribute_ids = ResolvedPrefix(<<>>, names)
          /\ resolved =>
               /\ Len(last_call.attribute_ids) = Len(names)
               /\ \A k \in 1..Len(names) :
                    attribute(schema, last_call.attribute_ids[k]) = names[k]

\* get_attribute_ids resolved the coordinates and the second of two
\* attributes, in that order, on a deserialized schema.
C16_Witness ==
  /\ last_call # NULL
  /\ last_call.op = "get_attribute_ids"
  /\ bin # NULL
  /\ schema.attribute_num_ = 2
  /\ last_call.ret = TILEDB_AS_OK
  /\ last_call.attribute_ids = <<2, 1>>

----------------------------------------------------------------------------
(* Properties of the coordinate type *)

\* init has read the type list of the bundle.
TypesGiven == "types_" \in DOMAIN array_schema_c /\ array_schema_c.types_ # NULL

\* The coordinate token of the bundle: the entry after the attribute types.
CoordinateToken == At(Deref(array_schema_c.types_), schema.attribute_num_)

\* C17: init returns an error when the array is dense and the coordinate
\* token is float32 or float64; a dense schema of a successful init has
\* int32 or int64 coordinates, and init never reaches the assert(0) of
\* compute_cell_num_per_tile.
C17_DenseIntegerCoordinates ==
  /\ TypesGiven /\ array_schema_c.dense_ # 0 /\ CoordinateToken \in {Str_float32, Str_float64}
       => pc = "err"
  /\ pc = "done" /\ schema.dense_ => coords_type(schema) \in {T_int, T_int64_t}
  /\ pc # "abort"

\* init has stopped in set_types on a dense bundle whose attribute types
\* were accepted and whose coordinate token is float32.
C17_Witness ==
  /\ TypesGiven
  /\ pc = "err"
  /\ array_schema_c.dense_ # 0
  /\ CoordinateToken = Str_float32
  /\ Len(schema.types_) = schema.attribute_num_
  /\ "tile_extents_" \notin DOMAIN array_schema_c

\* set_types has returned TILEDB_AS_OK: init went on to read the tile
\* extents, or is about to.
SetTypesAccepted ==
  TypesGiven /\ (pc # "err" \/ "tile_extents_" \in DOMAIN array_schema_c)

\* The dimension names the caller gave.
UserDimensions == SubSeq(Deref(array_schema_c.dimensions_), 1, array_schema_c.dim_num_)

\* C18: when the coordinate token is char:var, init sets key_value_, the
\* coordinate type int32, dim_num_ 4 and the dimensions <base>_1 .. <base>_4
\* with <base> the first dimension the caller gave; for any other accepted
\* coordinate token key_value_ is false and dim_num_ and the dimensions are
\* those the caller gave.
C18_KeyValueDimensions ==
  SetTypesAccepted =>
    IF CoordinateToken = Str_char \o Str_colon \o Str_var
    THEN /\ schema.key_value_ = TRUE
         /\ coords_type(schema) = T_int
         /\ schema.dim_num_ = 4
         /\ schema.dimensions_ =
              [i \in 1..4 |-> Head(UserDimensions) \o <<"_">> \o
                              <<CASE i = 1 -> "1" [] i = 2 -> "2" [] i = 3 -> "3" [] i = 4 -> "4">>]
    ELSE /\ schema.key_value_ = FALSE
         /\ CoordinateToken \in {Str_int32, Str_int64, Str_float32, Str_float64}
         /\ schema.dim_num_ = array_schema_c.dim_num_
         /\ schema.dimensions_ = UserDimensions

\* init has finished in key-value mode for a bundle of two dimensions.
C18_Witness ==
  /\ pc = "done"
  /\ TypesGiven
  /\ CoordinateToken = Str_char \o Str_colon \o Str_var
  /\ array_schema_c.dim_num_ = 2
  /\ schema.key_value_ = TRUE

----------------------------------------------------------------------------
(* Properties of deserialize on malformed buffers *)

KnownOrderCodes ==
  {TILEDB_AS_CO_ROW_MAJOR, TILEDB_AS_CO_COLUMN_MAJOR, TILEDB_AS_CO_HILBERT}

\* The buffer carries an order byte that is the code of no order.
UnknownOrderByte(buffer) ==
  \/ buffer[tile_order_byte(buffer)] \notin KnownOrderCodes
  \/ buffer[cell_order_byte(buffer)] \notin KnownOrderCodes

\* C19: deserialize returns an error, and does not report success, when
\* the buffer is truncated, carries a type, order or compressor byte that is
\* no known code, or a length prefix inconsistent with the buffer size;
\* stated here for the order bytes.
C19_DeserializeRejectsUnknownCodes ==
  (last_call # NULL /\ last_call.op = "deserialize"
     /\ UnknownOrderByte(Deref(bin).array_schema_bin))
    => last_call.ret # TILEDB_AS_OK

----------------------------------------------------------------------------
(* Properties of the tile extents *)

\* C20: every schema of a successful init that has tile extents has one
\* strictly positive extent per dimension, so that the divisions by an
\* extent in tile_num, get_tile_pos and compute_tile_domain are by a positive
\* number and the tile counts they give are positive.
C20_PositiveTileExtents ==
  (pc = "done" /\ schema.tile_extents_ # NULL) =>
    /\ \A i \in 0..(schema.dim_num_ - 1) : tile_extents_at(schema, i) > 0
    /\ \A i \in 0..(schema.dim_num_ - 1) : tile_domain_array(schema)[2 * i + 2] >= 0
    /\ (last_call # NULL /\ last_call.op = "tile_num") => last_call.ret > 0

----------------------------------------------------------------------------
(* Properties of concurrent readers *)

\* The readers that have entered hilbert_id.
InHilbert == {t \in Readers : readers[t] # NULL /\ readers[t].op = "hilbert_id"}

\* The coordinates of reader t relative to the lower bounds of the domain.
ZeroBased(t) ==
  [i \in 1..schema.dim_num_ |-> readers[t].coords[i] - domain_at(schema, 2 * (i - 1))]

\* C21: the read operations other than hilbert_id leave every field of the
\* schema as init built it, whatever the readers and their order; hilbert_id
\* writes coords_for_hilbert_ and nothing else. A reader that is alone in
\* hilbert_id passes its own zero-based coordinates to the curve; with two
\* readers in hilbert_id each element passed is the zero-based coordinate of
\* one of them, not necessarily of the caller.
C21_ReadersAndScratch ==
  readers # NULL =>
    LET built == init_run(array_schema_c).s
    IN /\ \A f \in DOMAIN schema \ {"coords_for_hilbert_"} : schema[f] = built[f]
       /\ InHilbert = {} => schema = built
       /\ \A t \in InHilbert :
            readers[t].at = "done" =>
              /\ \A i \in 1..schema.dim_num_ :
                   \E u \in InHilbert : readers[t].passed[i] = ZeroBased(u)[i]
              /\ InHilbert = {t} => readers[t].passed = ZeroBased(t)

\* Two readers were in hilbert_id and one of them passed to the curve a
\* coordinate of the other.
C21_Witness ==
  /\ readers # NULL
  /\ \E t \in InHilbert :
       /\ readers[t].at = "done"
       /\ readers[t].passed # ZeroBased(t)

----------------------------------------------------------------------------
(* Properties of the order of init *)

\* The calls of init in the order the claim gives, then its return.
InitOrder ==
  <<"set_array_name", "set_attributes", "set_capacity", "set_dimensions",
    "set_compression", "set_consolidation_step", "set_dense", "set_types",
    "set_tile_extents", "set_cell_order", "set_tile_order", "set_domain",
    "compute", "done">>

\* The return code of the setter init is about to call, on the input the
\* step reads from the bundle.
SetterReturn ==
  CASE pc = "set_attributes" ->
         set_attributes(schema, array_schema_c'.attributes_, array_schema_c'.attribute_num_).ret
    [] pc = "set_dimensions" ->
         set_dimensions(schema, array_schema_c'.dimensions_, array_schema_c'.dim_num_).ret
    [] pc = "set_compression" -> set_compression(schema, array_schema_c'.compression_).ret
    [] pc = "set_types" -> set_types(schema, array_schema_c'.types_).ret
    [] pc = "set_tile_extents" -> set_tile_extents(schema, array_schema_c'.tile_extents_).ret
    [] pc = "set_cell_order" -> set_cell_order(schema, array_schema_c'.cell_order_).ret
    [] pc = "set_tile_order" -> set_tile_order(schema, array_schema_c'.tile_order_).ret
    [] pc = "set_domain" -> set_domain(schema, array_schema_c'.domain_).ret
    [] OTHER -> TILEDB_AS_OK

\* The derived fields are as the constructor left them.
DerivedUntouched(s) ==
  /\ s.cell_num_per_tile_ = -1
  /\ s.tile_sizes_ = <<>>
  /\ s.tile_domain_ = NULL
  /\ s.hilbert_curve_ = NULL
  /\ s.coords_for_hilbert_ = NULL

\* C22: init calls the setters in the fixed order array name, attributes,
\* capacity, dimensions, compression, consolidation step, dense, types, tile
\* extents, cell order, tile order, domain; it returns an error at the first
\* setter that rejects its input and runs no later setter; the derived
\* fields are computed and the Hilbert curve initialised only after every
\* setter succeeded, and init then returns OK.
C22_InitOrder ==
  [][/\ pc' # pc =>
          /\ \E k \in 1..(Len(InitOrder) - 1) :
               /\ pc = InitOrder[k]
               /\ pc' = (IF SetterReturn # TILEDB_AS_OK THEN "err" ELSE InitOrder[k + 1])
          /\ pc' # "done" => DerivedUntouched(schema')
          /\ pc' = "done" => schema' = compute_derived(schema) /\ DerivedUntouched(schema)
     /\ pc = "err" => pc' = "err" /\ schema' = schema
    ]_vars

\* init has returned an error from set_cell_order, with the object as
\* set_tile_extents left it.
C22_Witness ==
  /\ pc = "err"
  /\ "cell_order_" \in DOMAIN array_schema_c
  /\ "tile_order_" \notin DOMAIN array_schema_c
  /\ schema.tile_extents_ # NULL
  /\ "tile_order_" \notin DOMAIN schema
  /\ DerivedUntouched(schema)

----------------------------------------------------------------------------
(* Properties of the tile grid *)

\* The number of tiles along dimension i (from 1) by integer division.
TilesAlong(s, i) ==
  (domain_at(s, 2 * i - 1) - domain_at(s, 2 * i - 2) + 1) \div tile_extents_at(s, i - 1)

\* The dot product of the tile coordinates with the strides of the tile
\* order: the product of the tile counts of the later dimensions for
\* row-major, of the earlier dimensions for column-major.
TilePosition(s, c) ==
  Sum([i \in 1..s.dim_num_ |->
         c[i] * (IF s.tile_order_ = TILEDB_AS_TO_ROW_MAJOR
                 THEN Product([j \in 1..(s.dim_num_ - i) |-> TilesAlong(s, i + j)])
                 ELSE Product([j \in 1..(i - 1) |-> TilesAlong(s, j)]))])

\* C23: get_tile_pos returns the position of the tile under the tile order:
\* the dot product of the tile coordinates with the strides of integer
\* divisions (hi - lo + 1) / extent; the dispatcher returns the value its
\* row or column variant computed.
C23_TilePosReturned ==
  (last_call # NULL /\ last_call.op = "get_tile_pos") =>
    last_call.ret = TilePosition(schema, last_call.tile_coords)

\* The part of C23 that is about the variants: what get_tile_pos_row and
\* get_tile_pos_col compute is the dot product with those strides.
C23_VariantsComputePosition ==
  (pc = "done" /\ schema.tile_extents_ # NULL /\ coords_type(schema) \in {T_int, T_int64_t}) =>
    \A c \in TileDomainCoords(schema) :
      get_tile_pos_variant(schema, c) = TilePosition(schema, c)


\* Element k (zero-based) of the tile domain of s.
tile_domain_at(s, k) == Elem(coords_type(s), Deref(s.tile_domain_), k)

\* The width hi - lo + 1 of dimension i (zero-based) of the domain of s.
DomainWidth(s, i) == domain_at(s, 2 * i + 1) - domain_at(s, 2 * i) + 1

\* n is the quotient w / e rounded up, rounded down.
IsCeilOf(n, w, e) == (n - 1) * e < w /\ w <= n * e
IsFloorOf(n, w, e) == n * e <= w /\ w < (n + 1) * e

\* C25 as stated: with tile extents the tile domain is [0, n_i - 1] per
\* dimension, n_i being the integer division (hi_i - lo_i + 1) / extent_i
\* for integer coordinates and its ceiling for float coordinates; without
\* tile extents the tile domain stays null.
C25_IntegerDivisionForIntegers ==
  /\ schema.tile_extents_ = NULL => schema.tile_domain_ = NULL
  /\ schema.tile_extents_ # NULL =>
       \A i \in 0..(schema.dim_num_ - 1) :
         /\ tile_domain_at(schema, 2 * i) = 0
         /\ IF coords_type(schema) \in {T_int, T_int64_t}
            THEN IsFloorOf(tile_domain_at(schema, 2 * i + 1) + 1,
                           DomainWidth(schema, i), tile_extents_at(schema, i))
            ELSE IsCeilOf(tile_domain_at(schema, 2 * i + 1) + 1,
                          DomainWidth(schema, i), tile_extents_at(schema, i))

\* C25: with tile extents the tile domain is [0, n_i - 1] per dimension,
\* n_i being (hi_i - lo_i + 1) / extent_i rounded up, for integer and for
\* float coordinates alike; without tile extents the tile domain stays null.
C25_TileDomain ==
  /\ schema.tile_extents_ = NULL => schema.tile_domain_ = NULL
  /\ schema.tile_extents_ # NULL =>
       \A i \in 0..(schema.dim_num_ - 1) :
         /\ tile_domain_at(schema, 2 * i) = 0
         /\ IsCeilOf(tile_domain_at(schema, 2 * i + 1) + 1,
                     DomainWidth(schema, i), tile_extents_at(schema, i))

\* init built the tile domain of a schema of integer coordinates with two
\* dimensions, one whose width is a multiple of its extent and one whose
\* width is not.
C25_Witness ==
  /\ pc = "done"
  /\ coords_type(schema) \in {T_int, T_int64_t}
  /\ schema.tile_extents_ # NULL
  /\ schema.dim_num_ = 2
  /\ schema.tile_domain_ # NULL
  /\ DomainWidth(schema, 0) % tile_extents_at(schema, 0) # 0
  /\ DomainWidth(schema, 1) % tile_extents_at(schema, 1) = 0
  /\ (tile_domain_at(schema, 1) + 1) * tile_extents_at(schema, 0) > DomainWidth(schema, 0)


\* get_tile_pos_row, get_tile_pos_col map the tile coordinates of the tile
\* domain of s one to one onto 0..n-1.
RowOntoTilePositions(s, n) ==
  /\ {get_tile_pos_row(s, c) : c \in TileDomainCoords(s)} = 0..(n - 1)
  /\ \A c1, c2 \in TileDomainCoords(s) :
       get_tile_pos_row(s, c1) = get_tile_pos_row(s, c2) => c1 = c2

ColOntoTilePositions(s, n) ==
  /\ {get_tile_pos_col(s, c) : c \in TileDomainCoords(s)} = 0..(n - 1)
  /\ \A c1, c2 \in TileDomainCoords(s) :
       get_tile_pos_col(s, c1) = get_tile_pos_col(s, c2) => c1 = c2

\* C28: for a schema of integer coordinates with tile extents tile_num() is
\* the number of tile coordinates of the tile domain, the product of
\* tile_domain_hi_i + 1, and get_tile_pos_row and get_tile_pos_col map the
\* tile coordinates of the tile domain one to one onto 0..tile_num()-1,
\* also when the width of the domain is not a multiple of the tile extent.
C28_TileNumCountsTileDomain ==
  (last_call # NULL /\ last_call.op = "tile_num") =>
    /\ last_call.ret =
         Product([i \in 1..schema.dim_num_ |-> tile_domain_at(schema, 2 * i - 1) + 1])
    /\ RowOntoTilePositions(schema, last_call.ret)
    /\ ColOntoTilePositions(schema, last_call.ret)

\* The same on the domains whose width is a multiple of the tile extent in
\* every dimension.
C28_OnWholeTiles ==
  (/\ last_call # NULL /\ last_call.op = "tile_num"
   /\ \A i \in 0..(schema.dim_num_ - 1) :
        DomainWidth(schema, i) % tile_extents_at(schema, i) = 0) =>
    /\ last_call.ret =
         Product([i \in 1..schema.dim_num_ |-> tile_domain_at(schema, 2 * i - 1) + 1])
    /\ RowOntoTilePositions(schema, last_call.ret)
    /\ ColOntoTilePositions(schema, last_call.ret)

----------------------------------------------------------------------------
(* Properties of the cell position *)

\* The product of the tile extents of the dimensions from a to b (from 1).
ExtentProduct(s, a, b) ==
  Product([j \in 1..(b - a + 1) |-> tile_extents_at(s, a + j - 2)])

\* The dot product of c with the strides of the cell order of s: the
\* product of the later extents for row-major, of the earlier ones for
\* column-major.
CellPosition(s, c) ==
  Sum([i \in 1..s.dim_num_ |->
         c[i] * (IF s.cell_order_ = TILEDB_AS_CO_ROW_MAJOR
                 THEN ExtentProduct(s, i + 1, s.dim_num_)
                 ELSE ExtentProduct(s, 1, i - 1))])

\* Under row- or column-major order the latest call returned the dot
\* product with the strides and the positions of the tile-local coordinates
\* are one to one onto 0..n-1; under Hilbert order the call returned -1.
CellPosOnto(s, n) ==
  /\ s.cell_order_ \in {TILEDB_AS_CO_ROW_MAJOR, TILEDB_AS_CO_COLUMN_MAJOR} =>
       /\ cell_query[1].pos = CellPosition(s, cell_query[1].coords)
       /\ {get_cell_pos(s, c) : c \in TileLocalCoords(s)} = 0..(n - 1)
       /\ \A c1, c2 \in TileLocalCoords(s) :
            get_cell_pos(s, c1) = get_cell_pos(s, c2) => c1 = c2
  /\ s.cell_order_ = TILEDB_AS_CO_HILBERT => cell_query[1].pos = -1

\* The row-major position of the cell [2,3] in a tile of extents [5,5].
CellPosExample ==
  get_cell_pos([dim_num_ |-> 2, cell_order_ |-> TILEDB_AS_CO_ROW_MAJOR,
                types_ |-> <<T_int, T_int>>, attribute_num_ |-> 1,
                tile_extents_ |-> Ptr(EncArray(T_int, <<5, 5>>))],
               <<2, 3>>)

\* C24 as stated: get_cell_pos returns the dot product of the tile-local
\* coordinates with the row- or column-major strides of the extents, is a
\* bijection from the coordinates of a tile onto 0..cell_num_per_tile-1,
\* and returns -1 under Hilbert order.
C24_OntoCellNumPerTile ==
  cell_query # <<>> => CellPosOnto(schema, schema.cell_num_per_tile_)

\* C24: get_cell_pos returns the dot product of the tile-local coordinates
\* with the row- or column-major strides of the extents (13 for [2,3] in a
\* row-major tile of extents [5,5]), is a bijection from the coordinates of
\* a tile onto 0..n-1 with n the product of the extents, which is
\* cell_num_per_tile when the array is dense, and returns -1 under Hilbert
\* order.
C24_CellPosition ==
  cell_query # <<>> =>
    /\ CellPosOnto(schema, ExtentProduct(schema, 1, schema.dim_num_))
    /\ schema.dense_ =>
         schema.cell_num_per_tile_ = ExtentProduct(schema, 1, schema.dim_num_)
    /\ CellPosExample = 13

\* The last cell of a three-dimensional row-major tile with unequal extents
\* of a dense array was located.
C24_Witness ==
  /\ cell_query # <<>>
  /\ schema.dense_
  /\ schema.dim_num_ = 3
  /\ schema.cell_order_ = TILEDB_AS_CO_ROW_MAJOR
  /\ tile_extents_at(schema, 1) # tile_extents_at(schema, 0)
  /\ cell_query[1].pos = schema.cell_num_per_tile_ - 1
  /\ cell_query[1].pos > 0

----------------------------------------------------------------------------
(* Properties of the cells per tile *)

\* cell_num_per_tile of s is the product of the tile extents when s is
\* dense, the capacity when s is sparse without tile extents and the
\* constructor's -1 when s is sparse with tile extents; the capacity is
\* positive.
CellNumPerTileSet(s) ==
  /\ s.capacity_ > 0
  /\ s.dense_ =>
       s.cell_num_per_tile_ = Product([i \in 1..s.dim_num_ |-> tile_extents_at(s, i - 1)])
  /\ (~s.dense_ /\ s.tile_extents_ = NULL) => s.cell_num_per_tile_ = s.capacity_
  /\ (~s.dense_ /\ s.tile_extents_ # NULL) => s.cell_num_per_tile_ = -1

\* C26: after a successful init or deserialize cell_num_per_tile is the
\* product of the tile extents (dense), the capacity (sparse without tile
\* extents) or still -1 (sparse with tile extents), and the capacity is
\* positive, a non-positive input having been replaced by the default.
C26_CellNumPerTile ==
  /\ pc = "done" =>
       /\ CellNumPerTileSet(schema)
       /\ array_schema_c.capacity_ <= 0 => schema.capacity_ = TILEDB_AS_CAPACITY
  /\ copy # ArraySchema => CellNumPerTileSet(copy)

\* A dense schema with two dimensions and unequal extents, built from a
\* capacity of 0, was deserialized.
C26_Witness ==
  /\ pc = "done"
  /\ array_schema_c.capacity_ = 0
  /\ copy # ArraySchema
  /\ copy.dense_
  /\ copy.dim_num_ = 2
  /\ copy.cell_num_per_tile_ = MaxExtent
  /\ copy.capacity_ = TILEDB_AS_CAPACITY

----------------------------------------------------------------------------
(* Properties of the Hilbert curve *)

\* The largest width hi - lo + 1 of a dimension of the domain of s.
MaxDomainWidth(s) ==
  Max({domain_at(s, 2 * i + 1) - domain_at(s, 2 * i) + 1 : i \in 0..(s.dim_num_ - 1)})

\* b is the smallest number of bits with 2^b >= w.
SmallestBits(b, w) ==
  /\ b >= 0
  /\ Pow2(b) >= w
  /\ b > 0 => Pow2(b - 1) < w

\* s has a curve and a scratch buffer exactly under Hilbert cell order, and
\* then, with integer coordinates, the curve was made with the smallest
\* number of bits that holds the largest domain width.
HilbertCurveMade(s) ==
  /\ s.hilbert_curve_ # NULL <=> s.cell_order_ = TILEDB_AS_CO_HILBERT
  /\ s.coords_for_hilbert_ # NULL <=> s.cell_order_ = TILEDB_AS_CO_HILBERT
  /\ (s.cell_order_ = TILEDB_AS_CO_HILBERT /\ coords_type(s) \in {T_int, T_int64_t}) =>
       /\ SmallestBits(s.hilbert_bits_, MaxDomainWidth(s))
       /\ Deref(s.hilbert_curve_).bits = s.hilbert_bits_
       /\ Len(Deref(s.coords_for_hilbert_)) = s.dim_num_

\* hilbert_bits of a schema of int coordinates with the square domain
\* [0,hi] x [0,hi].
HilbertBitsOfSquare(hi) ==
  compute_hilbert_bits([dim_num_ |-> 2, attribute_num_ |-> 1, types_ |-> <<T_int, T_int>>,
                        domain_ |-> Ptr(EncArray(T_int, <<0, hi, 0, hi>>)),
                        hilbert_bits_ |-> -1]).hilbert_bits_

\* C27: after a successful init or deserialize the Hilbert curve and its
\* scratch buffer exist if and only if the cell order is Hilbert, and then,
\* for integer coordinates, hilbert_bits is the smallest b with 2^b >= the
\* largest domain width: 10 for [0,1023] x [0,1023], 0 when every width is 1.
C27_HilbertBits ==
  /\ pc = "done" => HilbertCurveMade(schema)
  /\ copy # ArraySchema => HilbertCurveMade(copy)
  /\ HilbertBitsOfSquare(1023) = 10
  /\ HilbertBitsOfSquare(0) = 0

\* init returned OK for a Hilbert schema of integer coordinates whose
\* largest domain width is not a power of two.
C27_Witness ==
  /\ pc = "done"
  /\ schema.cell_order_ = TILEDB_AS_CO_HILBERT
  /\ coords_type(schema) \in {T_int, T_int64_t}
  /\ schema.hilbert_curve_ # NULL
  /\ Pow2(schema.hilbert_bits_) > MaxDomainWidth(schema)

----------------------------------------------------------------------------
(* Properties of the bounds assertions *)

\* C29: for a schema init produced (attribute_num >= 1, dim_num >= 1) every
\* bounds assertion before a memcpy of serialize holds in the buffer of
\* compute_bin_size bytes, strict before every member and non-strict before
\* every compression byte, and the same assertions hold in deserialize
\* reading that buffer with its exact size.
C29_BoundsAssertions ==
  /\ bin # NULL =>
       /\ schema.attribute_num_ >= 1 /\ schema.dim_num_ >= 1
       /\ asserts_hold(serialize_asserts(schema), 0, Deref(bin).array_schema_bin_size)
  /\ copy # ArraySchema =>
       asserts_hold(deserialize_reads(Deref(bin).array_schema_bin), 0,
                    Deref(bin).array_schema_bin_size)
  /\ copy_bin # NULL =>
       asserts_hold(serialize_asserts(copy), 0, Deref(copy_bin).array_schema_bin_size)

\* A schema with two attributes, two dimensions and tile extents was
\* serialized and deserialized, the last compression byte ending the buffer.
C29_Witness ==
  /\ bin # NULL
  /\ copy # ArraySchema
  /\ schema.attribute_num_ = 2
  /\ schema.dim_num_ = 2
  /\ schema.tile_extents_ # NULL
  /\ LET r == deserialize_reads(Deref(bin).array_schema_bin)
     IN /\ ~r[Len(r)].strict
        /\ Sum([i \in 1..Len(r) |-> r[i].size]) = Deref(bin).array_schema_bin_size

----------------------------------------------------------------------------
(* Properties of the Hilbert scratch buffer *)

\* The values the curve of s takes: those of hilbert_bits_ bits.
CurveRange(s) == 0..(Pow2(s.hilbert_bits_) - 1)

\* C30: for a Hilbert schema of integer coordinates and coordinates inside
\* the domain, every value c_i - lo_i that hilbert_id has written to the
\* scratch buffer, and every value it passes to the curve, lies in
\* 0..2^hilbert_bits - 1.
C30_ScratchFitsBits ==
  readers # NULL =>
    \A t \in InHilbert :
      /\ \A k \in 1..readers[t].i :
           Deref(schema.coords_for_hilbert_)[k] \in CurveRange(schema)
      /\ readers[t].at = "done" =>
           \A k \in 1..schema.dim_num_ : readers[t].passed[k] \in CurveRange(schema)

\* A reader passed to the curve the zero-based coordinates of the far
\* corner of a two-dimensional domain wider than one cell.
C30_Witness ==
  /\ readers # NULL
  /\ schema.dim_num_ = 2
  /\ \E t \in InHilbert :
       /\ readers[t].at = "done"
       /\ \A k \in 1..2 :
            /\ readers[t].coords[k] = domain_at(schema, 2 * k - 1)
            /\ readers[t].passed[k] = MaxDomainWidth(schema) - 1
            /\ readers[t].passed[k] > 0

====
